---- MODULE Spec2Model ----
(***************************************************************************)
(* Model of the pipeline orchestration engine of RemoteDeveloper:          *)
(*   - the queue store (core/redis_client.py),                             *)
(*   - the Pipeline Stepper (core/worker.py) and the stage handlers        *)
(*     (agents/list/*.py),                                                 *)
(*   - the clarification resumption endpoints (routers/agent_router.py),   *)
(*   - the PR wait poller (core/pr_wait_service.py),                       *)
(*   - the workflow orchestrator (workflow/orchestrator.py).               *)
(***************************************************************************)
EXTENDS Integers, Sequences, FiniteSets, TLC

(***************************************************************************)
(* Bounds of the model.                                                    *)
(***************************************************************************)
MaxIngest == 2
MaxTicks == 1
MaxPolls == 2
MaxPRs == 1
MaxItems == 1
MaxEvents == 4
MaxPush == 3
MaxProcess == 1
MaxWalk == 8
MaxThreads == 2
MaxRegs == 2
MaxRequests == 2
MaxDone == 2
MaxTime == 1
MaxTrip == 3

(***************************************************************************)
(* Program constants.                                                      *)
(***************************************************************************)
TimeoutHours == 24
TimeoutSeconds == TimeoutHours * 3600

None == "None"

AGENT_ORDER ==
  << "REQUIREMENT", "PLAN", "UXUI", "ARCHITECT", "CODE", "REFACTORING",
     "TESTQA", "DOC", "RELEASE", "MONITORING", "EVALUATION" >>

Agents == { AGENT_ORDER[i] : i \in 1..Len(AGENT_ORDER) }

\* AgentStrategy.next_agent of every registered handler
next_agent(a) ==
  CASE a = "REQUIREMENT" -> "PLAN"
    [] a = "PLAN" -> "UXUI"
    [] a = "UXUI" -> "ARCHITECT"
    [] a = "ARCHITECT" -> "CODE"
    [] a = "CODE" -> "REFACTORING"
    [] a = "REFACTORING" -> "TESTQA"
    [] a = "TESTQA" -> "DOC"
    [] a = "DOC" -> "RELEASE"
    [] a = "RELEASE" -> "MONITORING"
    [] a = "MONITORING" -> None
    [] a = "EVALUATION" -> None

\* the key of event["data"] every handler writes before it returns
DataKey(a) ==
  CASE a = "REQUIREMENT" -> "requirement"
    [] a = "PLAN" -> "plan"
    [] a = "UXUI" -> "ux_ui"
    [] a = "ARCHITECT" -> "architecture"
    [] a = "CODE" -> "code"
    [] a = "REFACTORING" -> "refactoring"
    [] a = "TESTQA" -> "test_results"
    [] a = "DOC" -> "documentation"
    [] a = "RELEASE" -> "release"
    [] a = "MONITORING" -> "monitoring"
    [] a = "EVALUATION" -> "evaluation"

\* the key under which a PR-opening handler records the PR number
PrKey(a) ==
  CASE a = "CODE" -> "pr_number"
    [] a = "REFACTORING" -> "refactoring_pr_number"
    [] a = "TESTQA" -> "test_pr_number"
    [] OTHER -> "pr_number"

(***************************************************************************)
(* What a call of handler.process can do, as the Stepper sees it:          *)
(*   ok    - returns the envelope with its data key written                *)
(*   clar  - REQUIREMENT sets task.needs_clarification                     *)
(*   err   - CODE sets task.has_error                                      *)
(*   pr    - CODE / REFACTORING / TESTQA open a PR, call register_pr_wait  *)
(*           and return normally                                           *)
(*   raise - the call raises                                               *)
(***************************************************************************)
Outcomes(a) ==
  {"ok", "raise"}
    \cup (IF a = "REQUIREMENT" THEN {"clar"} ELSE {})
    \cup (IF a = "CODE" THEN {"err"} ELSE {})
    \cup (IF a \in {"CODE", "REFACTORING", "TESTQA"} THEN {"pr"} ELSE {})

VARIABLES
  queue,      \* Redis lists queue:<agent>               agent -> Seq(envelope)
  waitClar,   \* Redis keys waiting:clarification:<id>   id -> envelope
  waitAppr,   \* Redis keys waiting:approval:<id>        id -> envelope
  taskDb,     \* task_history table                      id -> status
  lastLog,    \* the newest entry of the in-memory log
  resp,       \* the response of the newest resumption call
  now,        \* wall clock, in seconds
  pos,        \* Stepper: 0 = between ticks, i = at stage AGENT_ORDER[i]
  ticks,      \* number of process_queues_once calls completed
  nIngest,    \* number of ingest calls so far
  pending,    \* PrWaitService._pending, in insertion order
  prs,        \* number of pull requests the handlers opened so far
  completed,  \* poll_once: its list "completed", which it returns
  decided,    \* poll_once: what the first loop of the cycle in flight
              \* decided for every registration
  pollPc,     \* Poller: "idle", or "remove" between the two loops of poll_once
  polls,      \* number of poll cycles completed
  on_pr_merged,          \* PrWaitService._on_pr_merged is set
  on_changes_requested,  \* PrWaitService._on_changes_requested is set
  mergedCalls,  \* registrations handed to the merged callback, in order
  reworkCalls,  \* registrations handed to the rework callback, in order
  workItems,  \* Redis keys workitem:<id>               id -> saved WorkItem
  call,       \* the newest Orchestrator event call: WorkItem id, event name
  result,     \* what the newest Orchestrator call returned
  nEvents,    \* number of Orchestrator event calls so far
  writes,     \* the Redis writes of the newest Orchestrator call, in order
  pushLog,    \* queue client: the push_event calls that returned True
  popLog,     \* queue client: the pop_event calls that returned an event
  qret,       \* queue client: its newest call and whether it delivered
  nProcess,   \* number of POST /agent/{name}/process calls so far
  loops,      \* the two background loops: flag, threads, stop call
  reviews,    \* GitHub: the pull requests that carry a CHANGES_REQUESTED
              \* review (a review, once submitted, stays in the list)
  requests,   \* the API requests that the threadpool is serving or has
              \* served, in the order they began: position and locals
  trip,       \* the newest serialisation: the object, its JSON text, the
              \* object read back from the text
  inflight    \* the handler calls that have not returned yet: who called,
              \* the stage, the envelope handed to the handler

stepperVars == << pos, ticks >>
storeVars == << queue, waitClar, waitAppr >>
pollerVars == << pending, prs, completed, decided, pollPc, polls, on_pr_merged,
                 on_changes_requested, mergedCalls, reworkCalls >>
wfVars == << workItems, call, result, nEvents, writes >>
qVars == << pushLog, popLog, qret >>
vars == << queue, waitClar, waitAppr, taskDb, lastLog, resp, now, pos, ticks,
           nIngest, pending, prs, completed, decided, pollPc, polls, on_pr_merged,
           on_changes_requested, mergedCalls, reworkCalls, workItems, call,
           result, nEvents, writes, pushLog, popLog, qret, nProcess, inflight, loops,
           reviews, requests, trip >>

(***************************************************************************)
(* Keyed stores as functions with a dynamic domain.                        *)
(***************************************************************************)
EmptyMap == [k \in {} |-> None]

MapSet(m, k, v) == [x \in (DOMAIN m) \cup {k} |-> IF x = k THEN v ELSE m[x]]

MapDel(m, k) == [x \in (DOMAIN m) \ {k} |-> m[x]]

Range(s) == { s[i] : i \in DOMAIN s }

(***************************************************************************)
(* Queue store (core/redis_client.py).  An item is a record; its field     *)
(* "form" tells what AgentEvent validation makes of it:                    *)
(*   "raw"     passes validation, not every defaulted key is present       *)
(*   "full"    passes validation, as model_dump returns it                 *)
(*   "invalid" fails validation                                            *)
(*   "text"    a list item that json.loads cannot decode; json.dumps, the  *)
(*             only writer of the lists, never stores one                  *)
(* An item without the field (an orchestrator job) fails validation.       *)
(***************************************************************************)
IsValid(item) == "form" \in DOMAIN item /\ item.form \in { "raw", "full" }

\* json.loads(item) succeeds
IsJson(item) == ~("form" \in DOMAIN item /\ item.form = "text")

\* AgentEvent.from_dict(item).to_dict(), for an item that passes validation
to_dict(item) == [item EXCEPT !.form = "full"]

\* what push_event hands to RPUSH: the validated dict, or the item as it is
Pushed(item) == IF IsValid(item) THEN to_dict(item) ELSE item

\* every decodable item comes back as model_dump would return it
PoppedCoerced(item) == IF ~IsJson(item) THEN None ELSE to_dict(item)

\* what pop_event returns for the stored item it removed; None for an item
\* that is no JSON (the item is removed all the same)
Popped(item) ==
  IF ~IsJson(item) THEN None
  ELSE IF IsValid(item) THEN to_dict(item) ELSE item

\* LPUSH in place of RPUSH
push_front(q, queue_name, event) ==
  [q EXCEPT ![queue_name] = << Pushed(event) >> \o @]

push_event(q, queue_name, event) ==
  [q EXCEPT ![queue_name] = Append(@, Pushed(event))]

\* LINDEX in place of LPOP: the item stays in the list
peek_event(q, queue_name) == q

\* the list after LPOP
pop_event(q, queue_name) ==
  [q EXCEPT ![queue_name] = Tail(@)]

\* what pop_event returns
pop_result(q, queue_name) ==
  IF q[queue_name] = << >> THEN None ELSE Popped(Head(q[queue_name]))

(***************************************************************************)
(* The background loops (worker.py 143-181, pr_wait_service.py 170-192).   *)
(*   running  the flag _worker_running / PrWaitService._running            *)
(*   threads  the threads started so far, oldest first, each at            *)
(*            "test"  the while condition                                  *)
(*            "busy"  inside process_queues_once / poll_once               *)
(*            "sleep" inside time.sleep                                    *)
(*            "exit"  the loop function has returned                       *)
(*   join     stop_polling is inside join(timeout=5)                       *)
(*   stopped  the stop call has returned and no start call followed        *)
(* What a tick or a poll cycle does to the stores is in StepStage and      *)
(* PollCheck / PollRemove; here a thread is followed through its loop.     *)
(***************************************************************************)
Loops == { "worker", "poller" }

\* start_worker / start_polling: nothing when the flag is set, else set the
\* flag and start a thread on the loop function
start_loop(l) ==
  /\ ~loops[l].running
  /\ ~loops[l].join
  /\ Len(loops[l].threads) < MaxThreads
  /\ loops' = [ loops EXCEPT ![l].running = TRUE,
                             ![l].threads = Append(@, "test"),
                             ![l].stopped = FALSE ]

\* stop_worker: clear the flag and return
stop_worker ==
  /\ loops["worker"].threads # << >>
  /\ loops' = [ loops EXCEPT !["worker"].running = FALSE,
                             !["worker"].stopped = TRUE ]

\* stop_polling, up to the join: clear the flag, wait for self._thread
stop_polling ==
  /\ loops["poller"].threads # << >>
  /\ ~loops["poller"].join
  /\ loops' = [ loops EXCEPT !["poller"].running = FALSE,
                             !["poller"].join = TRUE ]

\* stop_polling, the join returns: self._thread has finished, or the five
\* seconds are over, whatever the thread is doing
stop_polling_return ==
  /\ loops["poller"].join
  /\ loops' = [ loops EXCEPT !["poller"].join = FALSE,
                             !["poller"].stopped = TRUE ]

\* the loop's while condition: leave when the flag is clear; else the
\* worker runs a tick, the poller a poll cycle when _pending is not empty
loop_test(l, i) ==
  /\ loops[l].threads[i] = "test"
  /\ loops' = [ loops EXCEPT ![l].threads[i] =
                  IF ~loops[l].running THEN "exit"
                  ELSE IF l = "poller" /\ pending = << >> THEN "sleep"
                  ELSE "busy" ]

\* process_queues_once / poll_once returns to the loop (the worker loop
\* catches what a tick raises)
loop_done(l, i) ==
  /\ loops[l].threads[i] = "busy"
  /\ loops' = [ loops EXCEPT ![l].threads[i] = "sleep" ]

\* time.sleep returns
loop_wake(l, i) ==
  /\ loops[l].threads[i] = "sleep"
  /\ loops' = [ loops EXCEPT ![l].threads[i] = "test" ]

(***************************************************************************)
(* Task envelope, as far as the core reads and writes it.                  *)
(*   id      meta.event_id                                                 *)
(*   prompt  task.original_prompt, the sequence of texts joined in it      *)
(*   clar    task.needs_clarification     appr   task.needs_approval       *)
(*   err     task.has_error               tstatus task.status              *)
(*   stage   task.current_stage           data   keys of data with a value *)
(*   hist    history, the stage of every entry                             *)
(*   top     top-level "status" key       rework top-level "is_rework"     *)
(*   form    see the queue store                                           *)
(***************************************************************************)
NewEnvelope(event_id, needs_approval) ==
  [ id |-> event_id, prompt |-> << "task" >>, clar |-> FALSE,
    appr |-> needs_approval, err |-> FALSE, tstatus |-> "PENDING",
    stage |-> "REQUIREMENT", data |-> {}, hist |-> << "INGRESS" >>,
    top |-> None, rework |-> FALSE, form |-> "raw" ]

(***************************************************************************)
(* POST /event/ingest: the id is the clock second at the call, the         *)
(* envelope goes to queue:REQUIREMENT.  A task given as a dict may carry   *)
(* extra task keys (needs_approval); needs_clarification is reset.         *)
(* elapsed: the seconds gone by since the clock was last read.             *)
(***************************************************************************)
event_ingest(needs_approval, elapsed) ==
  /\ nIngest < MaxIngest
  /\ now' = now + elapsed
  /\ queue' = push_event(queue, "REQUIREMENT", NewEnvelope(now', needs_approval))
  /\ lastLog' = [ agent |-> "INGRESS", event_id |-> now', what |-> "ingested",
                  status |-> "success" ]
  /\ nIngest' = nIngest + 1
  /\ UNCHANGED << wfVars, qVars, nProcess, inflight, loops, trip, reviews, requests, resp, waitClar, waitAppr, taskDb, stepperVars, pollerVars >>

(***************************************************************************)
(* task_history table (core/database.py).                                  *)
(***************************************************************************)
create_task(db, task_id) ==
  IF task_id \in DOMAIN db THEN db ELSE MapSet(db, task_id, "PENDING")

update_task_status(db, task_id, status) ==
  IF task_id \in DOMAIN db THEN MapSet(db, task_id, status) ELSE db

(***************************************************************************)
(* handler.process(event) for a call that returns: the handler writes its  *)
(* data key; REQUIREMENT decides needs_clarification; CODE may set         *)
(* has_error; a handler that opened a PR records its number and sets the   *)
(* top-level status PENDING_PR_CLOSE.                                      *)
(***************************************************************************)
process(a, event, oc) ==
  [ event EXCEPT
      !.data = @ \cup {DataKey(a)} \cup (IF oc = "pr" THEN {PrKey(a)} ELSE {}),
      !.clar = IF a = "REQUIREMENT" THEN oc = "clar" ELSE @,
      !.err = IF oc = "err" THEN TRUE ELSE @,
      !.top = IF oc = "pr" THEN "PENDING_PR_CLOSE" ELSE @ ]

(***************************************************************************)
(* The branch process_queues_once takes on the envelope a handler returned *)
(* (worker.py 62-135).                                                     *)
(***************************************************************************)
BranchSkipsClarification(event) ==
  IF event.appr THEN "approval"
  ELSE IF event.err THEN "error"
  ELSE "advance"

BranchSkipsError(event) ==
  IF event.clar THEN "clarification"
  ELSE IF event.appr THEN "approval"
  ELSE "advance"

Branch(event) ==
  IF event.clar THEN "clarification"
  ELSE IF event.appr THEN "approval"
  ELSE IF event.err THEN "error"
  ELSE "advance"

AdvancedNoHistory(a, event) ==
  [ event EXCEPT
      !.stage = IF next_agent(a) # None THEN next_agent(a) ELSE "DONE",
      !.tstatus = IF next_agent(a) = None THEN "COMPLETED" ELSE @ ]

\* worker.py 113-128: the envelope as the Stepper leaves it before the push
Advanced(a, event) ==
  [ event EXCEPT
      !.stage = IF next_agent(a) # None THEN next_agent(a) ELSE "DONE",
      !.tstatus = IF next_agent(a) = None THEN "COMPLETED" ELSE @,
      !.hist = Append(@, a),
      !.form = IF @ = "full" THEN "raw" ELSE @ ]

\* the dict the handler returned, as it is when the iteration ends
FinalEvent(a, event) ==
  IF Branch(event) = "advance" THEN Advanced(a, event) ELSE event

\* PrWaitService.register_pr_wait; event_data is the handler's dict itself
PendingPR(event_id, pr_number, agent_name, next, event_data, created_at) ==
  [ event_id |-> event_id, pr_number |-> pr_number, agent_name |-> agent_name,
    next_agent |-> next, event_data |-> event_data, created_at |-> created_at,
    status |-> "pending" ]

\* _pending is a dict: a sequence of registrations with distinct event ids,
\* in insertion order; assigning an existing key keeps its place
DictSet(p, reg) ==
  IF \E i \in DOMAIN p : p[i].event_id = reg.event_id
    THEN [ i \in DOMAIN p |-> IF p[i].event_id = reg.event_id THEN reg ELSE p[i] ]
    ELSE Append(p, reg)

DictDel(p, event_id) == SelectSeq(p, LAMBDA r : r.event_id # event_id)

register_pr_wait(p, event_id, pr_number, agent_name, next, event_data) ==
  DictSet(p, PendingPR(event_id, pr_number, agent_name, next, event_data, now))

\* an envelope that left the last stage starts over
QueueAfterRestart(q, a, event) ==
  IF Branch(event) = "advance"
    THEN push_event(q, IF next_agent(a) # None THEN next_agent(a)
                                               ELSE AGENT_ORDER[1],
                    Advanced(a, event))
    ELSE q

\* the queues after the Stepper handled the returned envelope
QueueAfter(q, a, event) ==
  IF Branch(event) = "advance" /\ next_agent(a) # None
    THEN push_event(q, next_agent(a), Advanced(a, event))
    ELSE q

TaskDbAfter(db, a, event) ==
  CASE Branch(event) = "error" -> update_task_status(db, event.id, "FAILED")
    [] Branch(event) = "advance" ->
         update_task_status(db, event.id,
                            IF next_agent(a) # None THEN "RUNNING"
                                                    ELSE "COMPLETED")
    [] OTHER -> db

\* add_log(agent, message, status): the agent, the event id and the kind
\* of the message, and the status
Log(agent, event_id, what, status) ==
  [ agent |-> agent, event_id |-> event_id, what |-> what, status |-> status ]

LogAfter(a, event) ==
  CASE Branch(event) = "clarification" ->
         Log(a, event.id, "waiting for clarification", "pending")
    [] Branch(event) = "approval" ->
         Log(a, event.id, "waiting for approval", "pending")
    [] Branch(event) = "error" ->
         Log(a, event.id, "pipeline stopped", "failed")
    [] OTHER -> IF next_agent(a) # None
                  THEN Log(a, event.id, "completed", "success")
                  ELSE Log("SYSTEM", event.id, "pipeline completed", "success")

(***************************************************************************)
(* process_queues_once (worker.py 17-142).  StartTick enters the for loop; *)
(* StepStage is one iteration of it, for the stage AGENT_ORDER[pos].       *)
(***************************************************************************)
StartTick ==
  /\ pos = 0
  /\ ticks < MaxTicks
  /\ pos' = 1
  /\ UNCHANGED << storeVars, taskDb, lastLog, wfVars, qVars, nProcess, inflight, loops, trip, reviews, requests, resp, now, ticks, nIngest,
                  pollerVars >>

\* the loop stays on a stage until its queue is drained
NextPosDrain ==
  IF pos = 0 THEN 1
  ELSE IF Len(queue[AGENT_ORDER[pos]]) > 1 THEN pos
  ELSE IF pos = Len(AGENT_ORDER) THEN 0 ELSE pos + 1

\* for agent_name in AGENT_ORDER: the position after this iteration
NextPos == IF pos = Len(AGENT_ORDER) THEN 0 ELSE pos + 1

StepStage ==
  /\ pos \in 1..Len(AGENT_ORDER)
  /\ pos' = NextPos
  /\ ticks' = IF pos = Len(AGENT_ORDER) THEN ticks + 1 ELSE ticks
  /\ LET a == AGENT_ORDER[pos]
     IN  IF queue[a] = << >>
           THEN UNCHANGED << storeVars, taskDb, lastLog, pending, prs >>
           ELSE LET event == pop_result(queue, a)
                    q1 == pop_event(queue, a)
                    db1 == IF a = "REQUIREMENT"
                             THEN create_task(taskDb, event.id) ELSE taskDb
                IN  \E oc \in Outcomes(a) :
                      IF oc = "raise"
                        THEN /\ queue' = q1
                             /\ taskDb' = update_task_status(db1, event.id, "FAILED")
                             /\ lastLog' = Log(a, event.id, "error", "failed")
                             /\ UNCHANGED << waitClar, waitAppr, pending, prs >>
                        ELSE LET ev1 == process(a, event, oc)
                                 br == Branch(ev1)
                             IN  /\ queue' = QueueAfter(q1, a, ev1)
                                 /\ waitClar' = IF br = "clarification"
                                                  THEN MapSet(waitClar, event.id, ev1)
                                                  ELSE waitClar
                                 /\ waitAppr' = IF br = "approval"
                                                  THEN MapSet(waitAppr, event.id, ev1)
                                                  ELSE waitAppr
                                 /\ taskDb' = TaskDbAfter(db1, a, ev1)
                                 /\ lastLog' = LogAfter(a, ev1)
                                 /\ prs' = IF oc = "pr" THEN prs + 1 ELSE prs
                                 /\ pending' =
                                      IF oc = "pr"
                                        THEN register_pr_wait(pending, event.id,
                                               prs + 1, a, next_agent(a),
                                               FinalEvent(a, ev1))
                                        ELSE pending
  /\ UNCHANGED << wfVars, qVars, nProcess, inflight, loops, trip, reviews, requests, resp, now, nIngest, completed, decided, pollPc, polls,
                  on_pr_merged, on_changes_requested, mergedCalls, reworkCalls >>

(***************************************************************************)
(* POST /agent/{agent_name}/process (agent_router.py 138-220): pop one     *)
(* envelope of the stage and run its handler outside the Stepper.  Only    *)
(* REQUIREMENT's needs_clarification is looked at; a raise of the handler  *)
(* leaves the call with the envelope popped; the task table is not         *)
(* touched.                                                                *)
(***************************************************************************)
agent_process(a) ==
  /\ nProcess < MaxProcess
  /\ nProcess' = nProcess + 1
  /\ IF queue[a] = << >>
       THEN UNCHANGED << storeVars, lastLog, pending, prs >>
       ELSE LET event == pop_result(queue, a)
                q1 == pop_event(queue, a)
            IN  \E oc \in Outcomes(a) :
                  IF oc = "raise"
                    THEN /\ queue' = q1
                         /\ lastLog' = Log(a, event.id, "processing", "running")
                         /\ UNCHANGED << waitClar, waitAppr, pending, prs >>
                    ELSE LET ev1 == process(a, event, oc)
                             suspend == a = "REQUIREMENT" /\ ev1.clar
                         IN  /\ queue' = IF ~suspend /\ next_agent(a) # None
                                           THEN push_event(q1, next_agent(a),
                                                           Advanced(a, ev1))
                                           ELSE q1
                             /\ waitClar' = IF suspend
                                              THEN MapSet(waitClar, event.id, ev1)
                                              ELSE waitClar
                             /\ lastLog' = IF suspend
                                  THEN Log(a, event.id,
                                           "waiting for clarification", "pending")
                                  ELSE Log(a, event.id, "processed", "success")
                             /\ prs' = IF oc = "pr" THEN prs + 1 ELSE prs
                             /\ pending' =
                                  IF oc = "pr"
                                    THEN register_pr_wait(pending, event.id,
                                           prs + 1, a, next_agent(a),
                                           IF suspend THEN ev1
                                                      ELSE Advanced(a, ev1))
                                    ELSE pending
                             /\ UNCHANGED waitAppr
  /\ UNCHANGED << wfVars, qVars, inflight, loops, trip, reviews, requests, resp, taskDb, now, stepperVars,
                  nIngest, completed, decided, pollPc, polls, on_pr_merged, on_changes_requested,
                  mergedCalls, reworkCalls >>

(***************************************************************************)
(* POST /event/clarify and POST /pending/{id}/respond                      *)
(* (agent_router.py 107-137, 400-442): fetch the stored envelope, 404 when *)
(* the key is missing; append the response to the prompt, clear the flag,  *)
(* append a history entry, delete the key, push to queue:REQUIREMENT.      *)
(***************************************************************************)
\* the resumed envelope starts a history of its own
ClarifiedNewHistory(event, response, stage_name) ==
  [ event EXCEPT !.prompt = Append(@, response),
                 !.clar = FALSE,
                 !.hist = << stage_name >>,
                 !.form = IF @ = "full" THEN "raw" ELSE @ ]

\* the envelope a resumption pushes
Clarified(event, response, stage_name) ==
  [ event EXCEPT !.prompt = Append(@, response),
                 !.clar = FALSE,
                 !.hist = Append(@, stage_name),
                 !.form = IF @ = "full" THEN "raw" ELSE @ ]

DeletedKept(store, event_id) == store

\* r.delete(waiting_key)
Deleted(store, event_id) == MapDel(store, event_id)

ResumeSkipsStage(op, stage_name, event_id, response) ==
  /\ IF event_id \notin DOMAIN waitClar
       THEN /\ resp' = [ op |-> op, id |-> event_id, code |-> 404 ]
            /\ UNCHANGED << storeVars, lastLog >>
       ELSE /\ waitClar' = Deleted(waitClar, event_id)
            /\ queue' = push_event(queue, next_agent("REQUIREMENT"),
                           Clarified(waitClar[event_id], response, stage_name))
            /\ lastLog' = Log(op, event_id, "response received", "success")
            /\ resp' = [ op |-> op, id |-> event_id, code |-> 200 ]
            /\ UNCHANGED waitAppr

Resume(op, stage_name, event_id, response) ==
  /\ IF event_id \notin DOMAIN waitClar
       THEN /\ resp' = [ op |-> op, id |-> event_id, code |-> 404 ]
            /\ UNCHANGED << storeVars, lastLog >>
       ELSE /\ waitClar' = Deleted(waitClar, event_id)
            /\ queue' = push_event(queue, "REQUIREMENT",
                           Clarified(waitClar[event_id], response, stage_name))
            /\ lastLog' = Log(op, event_id, "response received", "success")
            /\ resp' = [ op |-> op, id |-> event_id, code |-> 200 ]
            /\ UNCHANGED waitAppr

\* the ids a caller names: those of the tasks the Stepper has seen so far
KnownIds == DOMAIN taskDb

event_clarify(event_id) ==
  /\ Resume("CLARIFICATION", "CLARIFICATION", event_id, "answer")
  /\ UNCHANGED << wfVars, qVars, nProcess, inflight, loops, trip, reviews, requests, taskDb, now, stepperVars, nIngest, pollerVars >>

respond_to_pending(item_id) ==
  /\ Resume("PENDING", "CLARIFICATION_RESPONSE", item_id, "answer")
  /\ UNCHANGED << wfVars, qVars, nProcess, inflight, loops, trip, reviews, requests, taskDb, now, stepperVars, nIngest, pollerVars >>

(***************************************************************************)
(* PrWaitService.set_merged_callback / set_changes_requested_callback.     *)
(***************************************************************************)
set_merged_callback ==
  /\ ~on_pr_merged
  /\ on_pr_merged' = TRUE
  /\ UNCHANGED << storeVars, taskDb, lastLog, wfVars, qVars, nProcess, inflight, loops, trip, reviews, requests, resp, now, stepperVars, nIngest,
                  pending, prs, completed, decided, pollPc, polls,
                  on_changes_requested, mergedCalls, reworkCalls >>

set_changes_requested_callback ==
  /\ ~on_changes_requested
  /\ on_changes_requested' = TRUE
  /\ UNCHANGED << storeVars, taskDb, lastLog, wfVars, qVars, nProcess, inflight, loops, trip, reviews, requests, resp, now, stepperVars, nIngest,
                  pending, prs, completed, decided, pollPc, polls,
                  on_pr_merged, mergedCalls, reworkCalls >>

(***************************************************************************)
(* What a poll cycle finds outside for one registration:                   *)
(*   review  "none" | "changes" (a CHANGES_REQUESTED review is present)    *)
(*           | "raise" (the review client raises)                          *)
(*   status  the PR's status: open, merged, closed, unknown (the client    *)
(*           returns nothing), or "raise" (the status client raises)       *)
(***************************************************************************)
Reviews == {"none", "changes", "raise"}
Statuses == {"open", "merged", "closed", "unknown", "raise"}
Observations == [ review : Reviews, status : Statuses ]

HasFeedback(ob) == ob.review = "changes"

\* age = (datetime.now() - pending.created_at).total_seconds();
\* age > self._timeout_seconds
TimedOut(reg, clock) == clock - reg.created_at > TimeoutSeconds

(***************************************************************************)
(* poll_once, first loop (pr_wait_service.py 108-147): what is decided     *)
(* for one registration.                                                   *)
(*   "timeout" | "merged" | "closed"  -> appended to completed             *)
(*   "rework"                         -> rework callback, stays pending    *)
(*   "keep"                           -> nothing                          *)
(***************************************************************************)
DecideReviewFirst(reg, ob, clock) ==
  IF ob.review = "raise" THEN "keep"
  ELSE IF HasFeedback(ob) THEN "rework"
  ELSE IF TimedOut(reg, clock) THEN "timeout"
  ELSE IF ob.status = "raise" THEN "keep"
  ELSE IF ob.status = "merged" THEN "merged"
  ELSE IF ob.status = "closed" THEN "closed"
  ELSE "keep"

DecideStatusFirst(reg, ob, clock) ==
  IF TimedOut(reg, clock) THEN "timeout"
  ELSE IF ob.status = "merged" THEN "merged"
  ELSE IF ob.status = "closed" THEN "closed"
  ELSE IF ob.review = "raise" THEN "keep"
  ELSE IF HasFeedback(ob) THEN "rework"
  ELSE "keep"

DecideElseClosed(reg, ob, clock) ==
  IF TimedOut(reg, clock) THEN "timeout"
  ELSE IF ob.review = "raise" THEN "keep"
  ELSE IF HasFeedback(ob) THEN "rework"
  ELSE IF ob.status = "raise" THEN "keep"
  ELSE IF ob.status = "merged" THEN "merged"
  ELSE "closed"

Decide(reg, ob, clock) ==
  IF TimedOut(reg, clock) THEN "timeout"
  ELSE IF ob.review = "raise" THEN "keep"
  ELSE IF HasFeedback(ob) THEN "rework"
  ELSE IF ob.status = "raise" THEN "keep"
  ELSE IF ob.status = "merged" THEN "merged"
  ELSE IF ob.status = "closed" THEN "closed"
  ELSE "keep"

IsCompleted(d) == d \in {"timeout", "merged", "closed"}

\* pending.status is assigned on the registration object itself
Marked(reg, d) == IF IsCompleted(d) THEN [reg EXCEPT !.status = d] ELSE reg

\* the key of a registration in the callback logs
RegKey(reg) == reg.pr_number

\* PrReviewService.create_rework_event
create_rework_event(original_event) ==
  [ original_event EXCEPT !.rework = TRUE, !.top = "REWORK" ]

\* the rework callback: re-enqueue the derived envelope to the originating
\* stage's queue
rework_callback(q, reg) ==
  push_event(q, reg.agent_name, create_rework_event(reg.event_data))

\* dec[i]: what the first loop decides for registration i;
\* raises[i]: the rework callback raises when invoked for registration i
RECURSIVE ReworkPushes(_, _, _, _, _)
ReworkPushes(q, p, dec, raises, i) ==
  IF i > Len(p) THEN q
  ELSE LET q1 == IF dec[i] = "rework" /\ on_changes_requested /\ ~raises[i]
                   THEN rework_callback(q, p[i])
                   ELSE q
       IN  ReworkPushes(q1, p, dec, raises, i + 1)

RECURSIVE ReworkLog(_, _, _, _)
ReworkLog(log, p, dec, i) ==
  IF i > Len(p) THEN log
  ELSE LET l1 == IF dec[i] = "rework" /\ on_changes_requested
                   THEN Append(log, RegKey(p[i])) ELSE log
       IN  ReworkLog(l1, p, dec, i + 1)

CompletedOf(p, dec) ==
  LET idx == SelectSeq([ i \in DOMAIN p |-> i ],
                       LAMBDA i : IsCompleted(dec[i]))
  IN  [ k \in DOMAIN idx |-> Marked(p[idx[k]], dec[idx[k]]) ]

\* the seconds gone by since the clock was last read, when a cycle starts:
\* none, the timeout horizon, or more than the horizon
Elapsed == { 0, TimeoutSeconds, TimeoutSeconds + 1 }

\* a client raised while the registration was checked: the exception is
\* caught by the loop body's except clause, for this registration alone
Raised(reg, ob, clock) ==
  /\ ~TimedOut(reg, clock)
  /\ \/ ob.review = "raise"
     \/ ob.review = "none" /\ ob.status = "raise"

ChecksUntilRaise(p, clock) ==
  { [ i \in DOMAIN p |->
        IF \E j \in 1..(i - 1) : Raised(p[j], obs[j], clock)
          THEN [ decision |-> "keep", raised |-> FALSE ]
          ELSE [ decision |-> Decide(p[i], obs[i], clock),
                 raised |-> Raised(p[i], obs[i], clock) ] ] :
      obs \in [ DOMAIN p -> Observations ] }

\* what the first loop can decide for the registrations p, and for which
\* of them a client raised, over everything the cycle can find outside
Checks(p, clock) ==
  { [ i \in DOMAIN p |-> [ decision |-> Decide(p[i], obs[i], clock),
                           raised |-> Raised(p[i], obs[i], clock) ] ] :
      obs \in [ DOMAIN p -> Observations ] }

\* what the first loop can decide when the review query answers from the
\* reviews that the pull requests carry (seen); either client may raise
ChecksSeen(p, clock, seen) ==
  { [ i \in DOMAIN p |-> [ decision |-> Decide(p[i], obs[i], clock),
                           raised |-> Raised(p[i], obs[i], clock) ] ] :
      obs \in { o \in [ DOMAIN p -> Observations ] :
                  \A i \in DOMAIN p :
                    /\ o[i].review = "changes" => p[i].pr_number \in seen
                    /\ o[i].review = "none" => p[i].pr_number \notin seen } }

\* the first loop, over the check vectors chks that the clients allow
poll_once_first(chks) ==
  /\ pollPc = "idle"
  /\ polls < MaxPolls
  /\ \E elapsed \in Elapsed : now' = now + elapsed
  /\ \E chk \in chks :
     LET dec == [ i \in DOMAIN pending |-> chk[i].decision ]
     IN
       /\ decided' = [ i \in DOMAIN pending |->
                         [ pr_number |-> pending[i].pr_number,
                           decision |-> dec[i],
                           raised |-> chk[i].raised ] ]
       /\ completed' = CompletedOf(pending, dec)
       /\ pending' = [ i \in DOMAIN pending |-> Marked(pending[i], dec[i]) ]
       /\ \E raises \in [ DOMAIN pending -> BOOLEAN ] :
            /\ \A i \in DOMAIN pending :
                 raises[i] => dec[i] = "rework" /\ on_changes_requested
            /\ queue' = ReworkPushes(queue, pending, dec, raises, 1)
       /\ reworkCalls' = ReworkLog(reworkCalls, pending, dec, 1)
  /\ pollPc' = "remove"
  /\ UNCHANGED << waitClar, waitAppr, taskDb, lastLog, wfVars, qVars, nProcess, inflight, loops, trip, reviews, requests, resp, stepperVars,
                  nIngest, prs, polls, on_pr_merged, on_changes_requested,
                  mergedCalls >>

PollCheck == poll_once_first(Checks(pending, now'))

\* a poll cycle whose review query answers from the reviews on GitHub
PollCheckSeen == poll_once_first(ChecksSeen(pending, now', reviews))

(***************************************************************************)
(* poll_once, second loop (pr_wait_service.py 149-160): every completed    *)
(* registration is deleted from _pending; for a merged one the merged      *)
(* callback, when set, is invoked: it pushes the envelope snapshot, tagged *)
(* PR_MERGED, to the next agent's queue, or raises.                        *)
(***************************************************************************)
merged_callback(q, reg) ==
  push_event(q, reg.next_agent, [ reg.event_data EXCEPT !.top = "PR_MERGED" ])

RECURSIVE MergedPushes(_, _, _, _)
MergedPushes(q, done, raises, i) ==
  IF i > Len(done) THEN q
  ELSE LET q1 == IF on_pr_merged /\ done[i].status = "merged" /\ ~raises[i]
                   THEN merged_callback(q, done[i]) ELSE q
       IN  MergedPushes(q1, done, raises, i + 1)

RECURSIVE MergedLog(_, _, _)
MergedLog(log, done, i) ==
  IF i > Len(done) THEN log
  ELSE LET l1 == IF on_pr_merged /\ done[i].status = "merged"
                   THEN Append(log, RegKey(done[i])) ELSE log
       IN  MergedLog(l1, done, i + 1)

RemoveNone(p, done, i) == p

\* del self._pending[pending.event_id], for every completed registration
RECURSIVE RemoveAll(_, _, _)
RemoveAll(p, done, i) ==
  IF i > Len(done) THEN p
  ELSE RemoveAll(DictDel(p, done[i].event_id), done, i + 1)

PollRemove ==
  /\ pollPc = "remove"
  /\ \E raises \in [ DOMAIN completed -> BOOLEAN ] :
       /\ \A i \in DOMAIN completed :
            raises[i] => on_pr_merged /\ completed[i].status = "merged"
       /\ queue' = MergedPushes(queue, completed, raises, 1)
  /\ mergedCalls' = MergedLog(mergedCalls, completed, 1)
  /\ pending' = RemoveAll(pending, completed, 1)
  /\ decided' = << >>
  /\ pollPc' = "idle"
  /\ polls' = polls + 1
  /\ UNCHANGED << waitClar, waitAppr, taskDb, lastLog, wfVars, qVars, nProcess, inflight, loops, trip, reviews, requests, resp, now, stepperVars,
                  nIngest, prs, completed, on_pr_merged, on_changes_requested,
                  reworkCalls >>

(***************************************************************************)
(* A handler that opened a pull request registers the wait                 *)
(* (code_agent.py 183-194, refactoring_agent.py 177-188,                   *)
(* test_qa_agent.py 192-202): the registration as the handlers make it,    *)
(* for an envelope the handler is processing.                              *)
(***************************************************************************)
PrAgents == { "CODE", "REFACTORING", "TESTQA" }

handler_registers_call(event_id, a) ==
  /\ prs' = prs + 1
  /\ pending' = register_pr_wait(pending, event_id, prs + 1, a, next_agent(a),
                   FinalEvent(a, process(a, NewEnvelope(event_id, FALSE), "pr")))
  /\ UNCHANGED << storeVars, taskDb, lastLog, wfVars, qVars, nProcess, inflight, loops, trip, reviews, requests, resp, now, stepperVars,
                  nIngest, completed, decided, pollPc, polls, on_pr_merged,
                  on_changes_requested, mergedCalls, reworkCalls >>

(***************************************************************************)
(* Workflow definition product_dev_v1 (workflow/workflow_definition.py).   *)
(***************************************************************************)
States ==
  { "REQUIREMENTS", "PLANNING", "DESIGN", "CODING", "REFACTOR", "QA", "DOC",
    "RELEASE", "MONITORING", "DONE" }

\* StateDefinition.transitions: event name -> Transition.to_state
transitions(s) ==
  CASE s = "REQUIREMENTS" ->
         [ e \in {"REQUIREMENTS_COMPLETED", "REQUIREMENTS_NEEDS_MORE_INFO"} |->
             IF e = "REQUIREMENTS_COMPLETED" THEN "PLANNING" ELSE "REQUIREMENTS" ]
    [] s = "PLANNING" ->
         [ e \in {"PLAN_COMPLETED", "PLAN_SCOPE_CHANGED"} |->
             IF e = "PLAN_COMPLETED" THEN "DESIGN" ELSE "REQUIREMENTS" ]
    [] s = "DESIGN" ->
         [ e \in {"UX_APPROVED", "ARCH_APPROVED", "UX_ARCH_DONE",
                  "DESIGN_REJECTED"} |->
             CASE e = "UX_APPROVED" -> "DESIGN"
               [] e = "ARCH_APPROVED" -> "DESIGN"
               [] e = "UX_ARCH_DONE" -> "CODING"
               [] e = "DESIGN_REJECTED" -> "REQUIREMENTS" ]
    [] s = "CODING" ->
         [ e \in {"CODE_READY_FOR_QA", "CODE_NEEDS_REFACTOR"} |->
             IF e = "CODE_READY_FOR_QA" THEN "QA" ELSE "REFACTOR" ]
    [] s = "REFACTOR" -> [ e \in {"REFACTOR_DONE"} |-> "CODING" ]
    [] s = "QA" ->
         [ e \in {"QA_PASSED", "QA_FAILED", "QA_SCOPE_CHANGE"} |->
             CASE e = "QA_PASSED" -> "DOC"
               [] e = "QA_FAILED" -> "CODING"
               [] e = "QA_SCOPE_CHANGE" -> "REQUIREMENTS" ]
    [] s = "DOC" -> [ e \in {"DOC_DONE"} |-> "RELEASE" ]
    [] s = "RELEASE" ->
         [ e \in {"RELEASED", "RELEASE_REJECTED"} |->
             IF e = "RELEASED" THEN "MONITORING" ELSE "QA" ]
    [] s = "MONITORING" ->
         [ e \in {"INCIDENT_HOTFIX", "NEW_FEATURE_IDEA", "MONITORING_COMPLETE"} |->
             CASE e = "INCIDENT_HOTFIX" -> "CODING"
               [] e = "NEW_FEATURE_IDEA" -> "REQUIREMENTS"
               [] e = "MONITORING_COMPLETE" -> "DONE" ]
    [] s = "DONE" -> [ e \in {} |-> None ]

\* Transition.actions: the agents the transition's own actions enqueue; no
\* transition of product_dev_v1 gives any
transition_actions(s, name) == << >>

\* StateDefinition.requires_approvals
requires_approvals(s) ==
  IF s = "DESIGN" THEN << "UX_APPROVED", "ARCH_APPROVED" >> ELSE << >>

\* StateDefinition.on_enter: the agents its actions enqueue
on_enter(s) ==
  CASE s = "REQUIREMENTS" -> << "REQUIREMENT" >>
    [] s = "PLANNING" -> << "PLAN" >>
    [] s = "DESIGN" -> << "UXUI", "ARCHITECT" >>
    [] s = "CODING" -> << "CODE" >>
    [] s = "REFACTOR" -> << "REFACTORING" >>
    [] s = "QA" -> << "TESTQA" >>
    [] s = "DOC" -> << "DOC" >>
    [] s = "RELEASE" -> << "RELEASE" >>
    [] s = "MONITORING" -> << "MONITORING" >>
    [] s = "DONE" -> << >>
    [] OTHER -> << >>  \* workflow.states.get(s) is None: nothing to run

\* the event names a caller submits: every key of the workflow, and one
\* that is a key of no state
EventNames ==
  UNION { DOMAIN transitions(s) : s \in States } \cup { "NO_SUCH_EVENT" }

\* WORKFLOW_REGISTRY: the names registered
WORKFLOW_REGISTRY == { "product_dev_v1" }

\* the workflow names a caller passes: the registered one and another
WorkflowNames == { "product_dev_v1", "other_v1" }

\* Orchestrator.get_workflow: the name stands for the definition
get_workflow(workflow_name) ==
  IF workflow_name \in WORKFLOW_REGISTRY THEN workflow_name ELSE None

\* WorkflowDefinition.initial_state of a registered workflow
initial_state(workflow_name) ==
  CASE workflow_name = "product_dev_v1" -> "REQUIREMENTS"

(***************************************************************************)
(* WorkItem (models/work_item.py) and its persistence.                     *)
(***************************************************************************)
\* WorkItem.create
WorkItemCreate(work_item_id, workflow_name) ==
  [ id |-> work_item_id, current_state |-> "REQUIREMENTS",
    workflow_name |-> workflow_name,
    approval_flags |-> {},
    history |-> << [ state |-> "CREATED", message |-> << "WorkItem created" >> ] >>,
    repr |-> "object" ]

\* WorkItem.add_history
add_history(work_item, state, message) ==
  [ work_item EXCEPT !.history =
      Append(@, [ state |-> state, message |-> message ]) ]

\* WorkItem.to_json / WorkItem.from_json
to_json(work_item) == [ work_item EXCEPT !.repr = "json" ]

from_json(data) == [ data EXCEPT !.repr = "object" ]

\* Orchestrator.save_work_item
save_work_item(store, work_item) ==
  MapSet(store, work_item.id, to_json(work_item))

\* Orchestrator.load_work_item, for a key that exists
load_work_item(store, work_item_id) == from_json(store[work_item_id])

(***************************************************************************)
(* Orchestrator (workflow/orchestrator.py).                                *)
(***************************************************************************)
\* Orchestrator.enqueue_agent_job: RPUSH of the job, not through push_event
enqueue_agent_job(q, agent_name, work_item_id) ==
  [ q EXCEPT ![agent_name] =
      Append(@, [ work_item_id |-> work_item_id, agent |-> agent_name,
                  payload |-> {}, created_at |-> now ]) ]

\* Orchestrator._execute_actions
RECURSIVE _execute_actions(_, _, _)
_execute_actions(q, work_item_id, actions) ==
  IF actions = << >>
    THEN q
    ELSE _execute_actions(enqueue_agent_job(q, Head(actions), work_item_id),
                          work_item_id, Tail(actions))

\* Orchestrator._get_combined_approval_event
_get_combined_approval_event(approvals) ==
  IF Range(approvals) = { "UX_APPROVED", "ARCH_APPROVED" }
    THEN "UX_ARCH_DONE"
    ELSE None

any_approved(flags, approvals) ==
  \E i \in DOMAIN approvals : approvals[i] \in flags

\* all(work_item.approval_flags.get(approval, False) for approval in ...)
all_approved(flags, approvals) ==
  \A i \in DOMAIN approvals : approvals[i] \in flags

GetOrStay(s, name) ==
  IF name \in DOMAIN transitions(s) THEN transitions(s)[name] ELSE s

\* DESIGN_REJECTED leads to a state the workflow does not declare
GetUndeclared(s, name) ==
  IF s = "DESIGN" /\ name = "DESIGN_REJECTED" THEN "REJECTED"
  ELSE IF name \in DOMAIN transitions(s) THEN transitions(s)[name] ELSE None

\* DONE declares a transition back to REQUIREMENTS
GetReopens(s, name) ==
  IF s = "DONE" /\ name = "NEW_FEATURE_IDEA" THEN "REQUIREMENTS"
  ELSE IF name \in DOMAIN transitions(s) THEN transitions(s)[name] ELSE None

\* current_state_def.transitions.get(name)
Get(s, name) ==
  IF name \in DOMAIN transitions(s) THEN transitions(s)[name] ELSE None

\* every call that succeeds runs on_enter of the state the WorkItem is in
OutcomeReenters(ok, msg, saved, item, jobs) ==
  [ ok |-> ok, msg |-> msg, saved |-> saved, item |-> item,
    jobs |-> IF ok THEN on_enter(item.current_state) ELSE jobs ]

\* what a call returns and does: (success, message), the WorkItem it saves
\* (saved = FALSE: nothing is saved), the agents it enqueues a job for
Outcome(ok, msg, saved, item, jobs) ==
  [ ok |-> ok, msg |-> msg, saved |-> saved, item |-> item, jobs |-> jobs ]

\* the combined transition keeps the flags that completed it
handle_approval_keeps_flags(work_item, name) ==
  LET s == work_item.current_state
      approvals == requires_approvals(s)
      flagged == add_history(
                   [ work_item EXCEPT !.approval_flags = @ \cup { name } ],
                   s, << "Approval received", name >>)
      combined == _get_combined_approval_event(approvals)
      to == Get(s, combined)
      moved == add_history(
                 [ flagged EXCEPT !.current_state = to ],
                 to, << "All approvals received, transitioned from", s >>)
  IN  IF name \notin Range(approvals)
        THEN Outcome(FALSE, << None >>, FALSE, work_item, << >>)
        ELSE IF /\ all_approved(flagged.approval_flags, approvals)
                /\ combined # None
                /\ to # None
                /\ to # s
               THEN Outcome(TRUE, << "All approvals received. Transitioned to", to >>,
                            TRUE, moved, on_enter(to))
               ELSE Outcome(TRUE, << "Approval recorded", name >>,
                            TRUE, flagged, << >>)

\* Orchestrator._handle_approval_event; msg = <<None>> stands for its
\* returning None
_handle_approval_event(work_item, name) ==
  LET s == work_item.current_state
      approvals == requires_approvals(s)
      flagged == add_history(
                   [ work_item EXCEPT !.approval_flags = @ \cup { name } ],
                   s, << "Approval received", name >>)
      combined == _get_combined_approval_event(approvals)
      to == Get(s, combined)
      moved == add_history(
                 [ flagged EXCEPT !.current_state = to, !.approval_flags = {} ],
                 to, << "All approvals received, transitioned from", s >>)
  IN  IF name \notin Range(approvals)
        THEN Outcome(FALSE, << None >>, FALSE, work_item, << >>)
        ELSE IF /\ all_approved(flagged.approval_flags, approvals)
                /\ combined # None
                /\ to # None
                /\ to # s
               THEN Outcome(TRUE, << "All approvals received. Transitioned to", to >>,
                            TRUE, moved, on_enter(to))
               ELSE Outcome(TRUE, << "Approval recorded", name >>,
                            TRUE, flagged, << >>)

WritesJobsFirst(out) ==
  IF out.saved
    THEN [ i \in DOMAIN out.jobs |-> [ op |-> "RPUSH", key |-> out.jobs[i] ] ]
         \o << [ op |-> "SET", key |-> out.item.id,
                 state |-> out.item.current_state ] >>
    ELSE << >>

\* the Redis writes of a call, in the order the code makes them:
\* save_work_item (SET workitem:<id>), then one RPUSH for every job
Writes(out) ==
  IF out.saved
    THEN << [ op |-> "SET", key |-> out.item.id,
              state |-> out.item.current_state ] >>
         \o [ i \in DOMAIN out.jobs |-> [ op |-> "RPUSH", key |-> out.jobs[i] ] ]
    ELSE << >>

\* the flags stay when the WorkItem leaves the state
ClearedNever(s, work_item) == work_item

\* "Clear approval flags when leaving approval-required states"
Cleared(s, work_item) ==
  IF requires_approvals(s) # << >>
    THEN [ work_item EXCEPT !.approval_flags = {} ]
    ELSE work_item

HandleLoadedForwardOnly(work_item, name) ==
  LET s == work_item.current_state
      approval == _handle_approval_event(work_item, name)
      to == Get(s, name)
      moved == add_history([ work_item EXCEPT !.current_state = to ], to,
                           << "Transitioned from", s, name >>)
      cleared == Cleared(s, moved)
  IN  IF s \notin States
        THEN Outcome(FALSE, << "Invalid state", s >>, FALSE, work_item, << >>)
        ELSE IF requires_approvals(s) # << >> /\ approval.msg # << None >>
               THEN approval
               ELSE IF to = None \/ to = s
                      THEN Outcome(FALSE, << "Invalid transition", s, name >>,
                                   FALSE, work_item, << >>)
                      ELSE Outcome(TRUE, << "Transitioned to", to >>, TRUE,
                                   cleared, transition_actions(s, name) \o on_enter(to))

\* Orchestrator.handle_event on a WorkItem that was loaded
HandleLoaded(work_item, name) ==
  LET s == work_item.current_state
      approval == _handle_approval_event(work_item, name)
      to == Get(s, name)
      moved == add_history([ work_item EXCEPT !.current_state = to ], to,
                           << "Transitioned from", s, name >>)
      cleared == Cleared(s, moved)
  IN  IF s \notin States
        THEN Outcome(FALSE, << "Invalid state", s >>, FALSE, work_item, << >>)
        ELSE IF requires_approvals(s) # << >> /\ approval.msg # << None >>
               THEN approval
               ELSE IF to = None
                      THEN Outcome(FALSE, << "Invalid transition", s, name >>,
                                   FALSE, work_item, << >>)
                      ELSE Outcome(TRUE, << "Transitioned to", to >>, TRUE,
                                   cleared, transition_actions(s, name) \o on_enter(to))

\* Orchestrator.handle_event, the call itself
handle_event_call(work_item_id, name) ==
  /\ nEvents' = nEvents + 1
  /\ call' = [ id |-> work_item_id, name |-> name ]
  /\ IF work_item_id \notin DOMAIN workItems
       THEN /\ result' = [ ok |-> FALSE, msg |-> << "WorkItem not found" >> ]
            /\ writes' = << >>
            /\ UNCHANGED << workItems, queue >>
       ELSE LET out == HandleLoaded(load_work_item(workItems, work_item_id), name)
            IN  /\ result' = [ ok |-> out.ok, msg |-> out.msg ]
                /\ workItems' = IF out.saved
                                  THEN save_work_item(workItems, out.item)
                                  ELSE workItems
                /\ queue' = _execute_actions(queue, work_item_id, out.jobs)
                /\ writes' = Writes(out)
  /\ UNCHANGED << qVars, nProcess, inflight, loops, trip, reviews, requests, waitClar, waitAppr, taskDb, lastLog, resp, now, stepperVars,
                  nIngest, pollerVars >>

\* Orchestrator.handle_event
handle_event(work_item_id, name) ==
  /\ nEvents < MaxEvents
  /\ handle_event_call(work_item_id, name)

\* Orchestrator.submit_approval: APPROVAL_EVENTS
ApprovalTypes == { "UX", "ARCH", "RELEASE", "OTHER" }

APPROVAL_EVENTS(approval_type, approved) ==
  CASE approval_type = "UX" ->
         IF approved THEN "UX_APPROVED" ELSE "DESIGN_REJECTED"
    [] approval_type = "ARCH" ->
         IF approved THEN "ARCH_APPROVED" ELSE "DESIGN_REJECTED"
    [] approval_type = "RELEASE" ->
         IF approved THEN "RELEASED" ELSE "RELEASE_REJECTED"
    [] OTHER -> None

\* Orchestrator.submit_approval, the call itself
submit_approval_call(work_item_id, approval_type, approved) ==
  IF APPROVAL_EVENTS(approval_type, approved) = None
    THEN /\ nEvents' = nEvents + 1
         /\ call' = [ id |-> work_item_id, name |-> None ]
         /\ result' = [ ok |-> FALSE, msg |-> << "Unknown approval type" >> ]
         /\ writes' = << >>
         /\ UNCHANGED << qVars, nProcess, inflight, loops, trip, reviews, requests, workItems, storeVars, taskDb, lastLog, resp, now,
                         stepperVars, nIngest, pollerVars >>
    ELSE handle_event_call(work_item_id,
                           APPROVAL_EVENTS(approval_type, approved))

\* Orchestrator.submit_approval
submit_approval(work_item_id, approval_type, approved) ==
  /\ nEvents < MaxEvents
  /\ submit_approval_call(work_item_id, approval_type, approved)

\* save_work_item ahead of the workflow lookup
create_saves_first(workflow_name, work_item) ==
  IF get_workflow(workflow_name) = None
    THEN Outcome(FALSE, << "Unknown workflow" >>, TRUE, work_item, << >>)
    ELSE Outcome(TRUE, << "created" >>, TRUE, work_item,
                 on_enter(work_item.current_state))

\* what Orchestrator.create_work_item does with the WorkItem it built: the
\* raise for an unknown workflow comes before save_work_item
create_outcome(workflow_name, work_item) ==
  IF get_workflow(workflow_name) = None
    THEN Outcome(FALSE, << "Unknown workflow" >>, FALSE, work_item, << >>)
    ELSE Outcome(TRUE, << "created" >>, TRUE, work_item,
                 on_enter(work_item.current_state))

\* Orchestrator.create_work_item; the id is a fresh one.  SADD to
\* workitem:index happens inside save_work_item: the index is the domain of
\* workItems.  A raise is recorded in result.
create_work_item(workflow_name) ==
  LET work_item_id == Cardinality(DOMAIN workItems) + 1
      out == create_outcome(workflow_name,
                            WorkItemCreate(work_item_id, workflow_name))
  IN  /\ out.saved => work_item_id <= MaxItems
      /\ workItems' = IF out.saved
                        THEN save_work_item(workItems, out.item)
                        ELSE workItems
      /\ queue' = _execute_actions(queue, work_item_id, out.jobs)
      /\ writes' = Writes(out)
      /\ result' = IF out.ok THEN result
                               ELSE [ ok |-> FALSE, msg |-> out.msg ]
      /\ UNCHANGED << qVars, nProcess, inflight, loops, trip, reviews, requests, call, nEvents, waitClar, waitAppr, taskDb, lastLog,
                      resp, now, stepperVars, nIngest, pollerVars >>

\* the ids a caller names: those created, and one that was not
ItemIds == 1..(MaxItems + 1)

(***************************************************************************)
(* The pipeline: ingest, Stepper, resumption.                              *)
(***************************************************************************)
Init ==
  /\ queue = [ a \in Agents |-> << >> ]
  /\ waitClar = EmptyMap
  /\ waitAppr = EmptyMap
  /\ taskDb = EmptyMap
  /\ lastLog = [ agent |-> None, event_id |-> 0, what |-> None,
                 status |-> None ]
  /\ resp = [ op |-> None, id |-> 0, code |-> 0 ]
  /\ now = 0
  /\ pos = 0
  /\ ticks = 0
  /\ nIngest = 0
  /\ pending = << >>
  /\ prs = 0
  /\ completed = << >>
  /\ decided = << >>
  /\ pollPc = "idle"
  /\ polls = 0
  /\ on_pr_merged = FALSE
  /\ on_changes_requested = FALSE
  /\ mergedCalls = << >>
  /\ reworkCalls = << >>
  /\ workItems = EmptyMap
  /\ call = [ id |-> 0, name |-> None ]
  /\ result = [ ok |-> FALSE, msg |-> << None >> ]
  /\ nEvents = 0
  /\ writes = << >>
  /\ pushLog = << >>
  /\ popLog = << >>
  /\ qret = [ op |-> None, ok |-> FALSE ]
  /\ nProcess = 0
  /\ inflight = {}
  /\ loops = [ l \in Loops |-> [ running |-> FALSE, threads |-> << >>,
                               join |-> FALSE, stopped |-> FALSE ] ]
  /\ reviews = {}
  /\ requests = << >>
  /\ trip = [ kind |-> None ]

Ingest ==
  \E needs_approval \in BOOLEAN, elapsed \in {0, 1} :
    event_ingest(needs_approval, elapsed)

Clarify == \E event_id \in KnownIds : event_clarify(event_id)

Respond == \E item_id \in KnownIds : respond_to_pending(item_id)

Next ==
  \/ Ingest
  \/ StartTick
  \/ StepStage
  \/ Clarify
  \/ Respond

Spec == Init /\ [][Next]_vars

(***************************************************************************)
(* The workflow: create_work_item, handle_event, submit_approval.          *)
(***************************************************************************)
CreateWorkItem ==
  \E workflow_name \in WorkflowNames : create_work_item(workflow_name)

HandleEvent ==
  \E work_item_id \in ItemIds, name \in EventNames :
    handle_event(work_item_id, name)

SubmitApproval ==
  \E work_item_id \in ItemIds, approval_type \in ApprovalTypes,
     approved \in BOOLEAN :
    submit_approval(work_item_id, approval_type, approved)

NextWF ==
  \/ CreateWorkItem
  \/ HandleEvent
  \/ SubmitApproval

SpecWF == Init /\ [][NextWF]_vars

(***************************************************************************)
(* One WorkItem followed through the workflow: the first WorkItem created  *)
(* is sent, call after call, an event that is a key of the transitions of  *)
(* the state it is in.                                                     *)
(***************************************************************************)
Walked == 1

Walk ==
  /\ Walked \in DOMAIN workItems
  /\ nEvents < MaxWalk
  /\ \E name \in DOMAIN transitions(
                    load_work_item(workItems, Walked).current_state) :
       handle_event_call(Walked, name)

NextWalk ==
  \/ CreateWorkItem
  \/ Walk

SpecWalk == Init /\ [][NextWalk]_vars

(***************************************************************************)
(* The first WorkItem under human approvals: the agents' completion events *)
(* reach it through handle_event, every approval and rejection through     *)
(* submit_approval, with any approval type.                                *)
(***************************************************************************)
\* the events submit_approval can send
HumanEvents ==
  { APPROVAL_EVENTS(approval_type, approved) :
      approval_type \in ApprovalTypes, approved \in BOOLEAN } \ { None }

AgentCompletes ==
  /\ Walked \in DOMAIN workItems
  /\ nEvents < MaxWalk
  /\ \E name \in DOMAIN transitions(
                    load_work_item(workItems, Walked).current_state)
                 \ HumanEvents :
       handle_event_call(Walked, name)

Approve ==
  /\ Walked \in DOMAIN workItems
  /\ nEvents < MaxWalk
  /\ \E approval_type \in ApprovalTypes, approved \in BOOLEAN :
       submit_approval_call(Walked, approval_type, approved)

NextApprove ==
  \/ CreateWorkItem
  \/ AgentCompletes
  \/ Approve

SpecApprove == Init /\ [][NextApprove]_vars

(***************************************************************************)
(* The first WorkItem walked to DONE and then sent more: any event through *)
(* handle_event, any approval or rejection through submit_approval.        *)
(***************************************************************************)
IsDone ==
  /\ Walked \in DOMAIN workItems
  /\ load_work_item(workItems, Walked).current_state = "DONE"
  /\ nEvents < MaxWalk + MaxDone

SendDone ==
  /\ IsDone
  /\ \E name \in EventNames : handle_event_call(Walked, name)

ApproveDone ==
  /\ IsDone
  /\ \E approval_type \in ApprovalTypes, approved \in BOOLEAN :
       submit_approval_call(Walked, approval_type, approved)

NextDone ==
  \/ CreateWorkItem
  \/ Walk
  \/ SendDone
  \/ ApproveDone

SpecDone == Init /\ [][NextDone]_vars

(***************************************************************************)
(* handle_event served by two threads of the threadpool at once            *)
(* (routers/workflow_router.py 98-167: the endpoints are plain functions). *)
(* A call is three steps: load_work_item (one GET), the work on the loaded *)
(* object, save_work_item and the jobs (SET, RPUSH).                       *)
(***************************************************************************)
Request(work_item_id, name, work_item) ==
  [ id |-> work_item_id, name |-> name, pc |-> "loaded", item |-> work_item,
    jobs |-> << >>, ret |-> [ ok |-> FALSE, msg |-> << None >> ] ]

\* work_item = self.load_work_item(event.work_item_id), for a key that exists
handle_event_load(work_item_id, name) ==
  /\ Len(requests) < MaxRequests
  /\ work_item_id \in DOMAIN workItems
  /\ requests' = Append(requests,
                    Request(work_item_id, name,
                            load_work_item(workItems, work_item_id)))
  /\ UNCHANGED << storeVars, taskDb, lastLog, wfVars, qVars, nProcess,
                  inflight, loops, trip, reviews, resp, now, stepperVars, nIngest,
                  pollerVars >>

\* from the workflow lookup to the point where the call saves or returns:
\* the flag, the history entry and the new state are set on the loaded object
handle_event_update(i) ==
  /\ requests[i].pc = "loaded"
  /\ LET out == HandleLoaded(requests[i].item, requests[i].name)
     IN  requests' =
           [ requests EXCEPT ![i] =
               [ @ EXCEPT !.pc = IF out.saved THEN "updated" ELSE "returned",
                          !.item = out.item,
                          !.jobs = out.jobs,
                          !.ret = [ ok |-> out.ok, msg |-> out.msg ] ] ]
  /\ UNCHANGED << storeVars, taskDb, lastLog, wfVars, qVars, nProcess,
                  inflight, loops, trip, reviews, resp, now, stepperVars, nIngest,
                  pollerVars >>

\* self.save_work_item(work_item), the jobs, and the return
handle_event_save(i) ==
  /\ requests[i].pc = "updated"
  /\ workItems' = save_work_item(workItems, requests[i].item)
  /\ queue' = _execute_actions(queue, requests[i].id, requests[i].jobs)
  /\ requests' = [ requests EXCEPT ![i].pc = "returned" ]
  /\ UNCHANGED << waitClar, waitAppr, taskDb, lastLog, call, result, nEvents,
                  writes, qVars, nProcess, inflight, loops, trip, reviews, resp,
                  now, stepperVars, nIngest, pollerVars >>

\* the approval events of DESIGN
ApprovalNames == Range(requires_approvals("DESIGN"))

\* the agents' completion events arrive before the approvals are submitted
Prepare ==
  /\ requests = << >>
  /\ AgentCompletes

\* each approval event is submitted once
ApprovalLoad ==
  \E name \in ApprovalNames :
    /\ \A i \in DOMAIN requests : requests[i].name # name
    /\ handle_event_load(Walked, name)

ApprovalUpdate == \E i \in DOMAIN requests : handle_event_update(i)

ApprovalSave == \E i \in DOMAIN requests : handle_event_save(i)

NextRace ==
  \/ CreateWorkItem
  \/ Prepare
  \/ ApprovalLoad
  \/ ApprovalUpdate
  \/ ApprovalSave

SpecRace == Init /\ [][NextRace]_vars

(***************************************************************************)
(* POST /event/clarify served by two threads of the threadpool at once     *)
(* (routers/agent_router.py 107-137: a plain function).  A call is three   *)
(* Redis commands: GET of the waiting key, DELETE of it, RPUSH to          *)
(* queue:REQUIREMENT; the envelope is changed in between, on the copy the  *)
(* call holds.                                                             *)
(***************************************************************************)
\* event_json = r.get(waiting_key); 404 when there is none
event_clarify_get(event_id) ==
  /\ Len(requests) < MaxRequests
  /\ IF event_id \notin DOMAIN waitClar
       THEN /\ requests' = Append(requests,
                   [ id |-> event_id, pc |-> "returned", code |-> 404,
                     item |-> NewEnvelope(event_id, FALSE) ])
            /\ resp' = [ op |-> "CLARIFICATION", id |-> event_id, code |-> 404 ]
       ELSE /\ requests' = Append(requests,
                   [ id |-> event_id, pc |-> "got", code |-> 0,
                     item |-> Clarified(waitClar[event_id], "answer",
                                        "CLARIFICATION") ])
            /\ UNCHANGED resp
  /\ UNCHANGED << storeVars, taskDb, lastLog, wfVars, qVars, nProcess,
                  inflight, loops, trip, reviews, now, stepperVars, nIngest,
                  pollerVars >>

\* r.delete(waiting_key): deleting a key that is gone deletes nothing
event_clarify_delete(i) ==
  /\ requests[i].pc = "got"
  /\ waitClar' = Deleted(waitClar, requests[i].id)
  /\ requests' = [ requests EXCEPT ![i].pc = "deleted" ]
  /\ UNCHANGED << queue, waitAppr, taskDb, lastLog, wfVars, qVars, nProcess,
                  inflight, loops, trip, reviews, resp, now, stepperVars, nIngest,
                  pollerVars >>

\* push_event("queue:REQUIREMENT", event), the log entry and the return
event_clarify_push(i) ==
  /\ requests[i].pc = "deleted"
  /\ queue' = push_event(queue, "REQUIREMENT", requests[i].item)
  /\ lastLog' = Log("CLARIFICATION", requests[i].id, "response received",
                    "success")
  /\ resp' = [ op |-> "CLARIFICATION", id |-> requests[i].id, code |-> 200 ]
  /\ requests' = [ requests EXCEPT ![i].pc = "returned", ![i].code = 200 ]
  /\ UNCHANGED << waitClar, waitAppr, taskDb, wfVars, qVars, nProcess,
                  inflight, loops, trip, reviews, now, stepperVars, nIngest,
                  pollerVars >>

IngestString == event_ingest(FALSE, 1)

ClarifyGet == \E event_id \in KnownIds : event_clarify_get(event_id)

ClarifyDelete == \E i \in DOMAIN requests : event_clarify_delete(i)

ClarifyPush == \E i \in DOMAIN requests : event_clarify_push(i)

NextResume ==
  \/ IngestString
  \/ StartTick
  \/ StepStage
  \/ ClarifyGet
  \/ ClarifyDelete
  \/ ClarifyPush

SpecResume == Init /\ [][NextResume]_vars

(***************************************************************************)
(* Serialisation (models/event.py, models/work_item.py).  A Python value   *)
(* is a record tagged with its type; a str is the sequence of its parts.   *)
(* A JSON text is the tree of what json.dumps writes: an object has string *)
(* keys, True is written true, None null; json.loads reads a string back   *)
(* as a str, whatever it was made from.                                    *)
(***************************************************************************)
PyStr(parts) == [ t |-> "str", s |-> parts ]
PyInt(n) == [ t |-> "int", n |-> n ]
PyBool(b) == [ t |-> "bool", b |-> b ]
PyNone == [ t |-> "NoneType" ]
PyDatetime(at) == [ t |-> "datetime", at |-> at ]
PyDict(items) == [ t |-> "dict", items |-> items ]
PyList(elems) == [ t |-> "list", elems |-> elems ]

Word(s) == PyStr(<< s >>)

\* the instants an object is stamped with
Times == 0..MaxTime

\* datetime.isoformat
isoformat(d) == PyStr(<< "iso", ToString(d.at) >>)

\* datetime.fromisoformat
fromisoformat(str) ==
  PyDatetime(CHOOSE at \in Times : ToString(at) = str.s[2])

\* json.dumps of what to_dict returns
RECURSIVE json_dumps(_)
json_dumps(v) ==
  CASE v.t = "str" -> [ j |-> "string", s |-> v.s ]
    [] v.t = "int" -> [ j |-> "number", n |-> v.n ]
    [] v.t = "bool" -> [ j |-> IF v.b THEN "true" ELSE "false" ]
    [] v.t = "NoneType" -> [ j |-> "null" ]
    [] v.t = "dict" ->
         [ j |-> "object",
           members |-> [ k \in DOMAIN v.items |-> json_dumps(v.items[k]) ] ]
    [] v.t = "list" ->
         [ j |-> "array",
           elems |-> [ i \in DOMAIN v.elems |-> json_dumps(v.elems[i]) ] ]

\* json.loads
RECURSIVE json_loads(_)
json_loads(text) ==
  CASE text.j = "string" -> PyStr(text.s)
    [] text.j = "number" -> PyInt(text.n)
    [] text.j = "true" -> PyBool(TRUE)
    [] text.j = "false" -> PyBool(FALSE)
    [] text.j = "null" -> PyNone
    [] text.j = "object" ->
         PyDict([ k \in DOMAIN text.members |-> json_loads(text.members[k]) ])
    [] text.j = "array" ->
         PyList([ i \in DOMAIN text.elems |-> json_loads(text.elems[i]) ])

\* data.get(key, default)
DictGet(data, key, default) ==
  IF key \in DOMAIN data.items THEN data.items[key] ELSE default

\* x.isoformat() if isinstance(x, datetime) else x
Stamped(x) == IF x.t = "datetime" THEN isoformat(x) ELSE x

\* datetime.fromisoformat(x) if isinstance(x, str); "x or datetime.now()"
Parsed(x, clock) ==
  IF x.t = "str" THEN fromisoformat(x)
  ELSE IF x.t = "NoneType" THEN PyDatetime(clock)
  ELSE x

\* the id of a WorkItem as the string it is
WorkItemId(id) == PyStr(<< "wi_", ToString(id) >>)

\* WorkflowEvent(name, work_item_id, payload, created_at, source)
WorkflowEvent(name, work_item_id, payload, created_at, source) ==
  [ name |-> Word(name), work_item_id |-> WorkItemId(work_item_id),
    payload |-> payload, created_at |-> PyDatetime(created_at),
    source |-> Word(source) ]

\* WorkflowEvent.to_dict
WorkflowEvent_to_dict(event) ==
  PyDict([ k \in { "name", "work_item_id", "payload", "created_at", "source" } |->
             CASE k = "name" -> event.name
               [] k = "work_item_id" -> event.work_item_id
               [] k = "payload" -> event.payload
               [] k = "created_at" -> Stamped(event.created_at)
               [] k = "source" -> event.source ])

\* source is not read from the dictionary
event_from_dict_default_source(data, clock) ==
  [ name |-> data.items["name"],
    work_item_id |-> data.items["work_item_id"],
    payload |-> DictGet(data, "payload", PyDict(EmptyMap)),
    created_at |-> Parsed(DictGet(data, "created_at", PyNone), clock),
    source |-> Word("system") ]

\* WorkflowEvent.from_dict
WorkflowEvent_from_dict(data, clock) ==
  [ name |-> data.items["name"],
    work_item_id |-> data.items["work_item_id"],
    payload |-> DictGet(data, "payload", PyDict(EmptyMap)),
    created_at |-> Parsed(DictGet(data, "created_at", PyNone), clock),
    source |-> DictGet(data, "source", Word("system")) ]

\* WorkflowEvent.to_json / WorkflowEvent.from_json
WorkflowEvent_to_json(event) == json_dumps(WorkflowEvent_to_dict(event))

WorkflowEvent_from_json(json_str, clock) ==
  WorkflowEvent_from_dict(json_loads(json_str), clock)

\* the WorkItem object that a WorkItem of the workflow model stands for:
\* approval_flags is a dict of flags set to True, a history entry a dict
\* of its state, the isoformat of its instant, and its message
WorkItemObject(work_item, created_at, updated_at) ==
  [ id |-> WorkItemId(work_item.id),
    title |-> Word("title"),
    current_state |-> Word(work_item.current_state),
    workflow_name |-> Word(work_item.workflow_name),
    meta |-> PyDict(EmptyMap),
    approval_flags |->
      PyDict([ name \in work_item.approval_flags |-> PyBool(TRUE) ]),
    created_at |-> PyDatetime(created_at),
    updated_at |-> PyDatetime(updated_at),
    history |->
      PyList([ i \in DOMAIN work_item.history |->
                 PyDict([ k \in { "state", "timestamp", "message" } |->
                            CASE k = "state" -> Word(work_item.history[i].state)
                              [] k = "timestamp" ->
                                   isoformat(PyDatetime(
                                     IF i = 1 THEN created_at ELSE updated_at))
                              [] k = "message" ->
                                   PyStr(work_item.history[i].message) ]) ]) ]

\* WorkItem.to_dict
WorkItem_to_dict(obj) ==
  PyDict([ k \in { "id", "title", "current_state", "workflow_name", "meta",
                   "approval_flags", "created_at", "updated_at", "history" } |->
             CASE k = "created_at" -> Stamped(obj.created_at)
               [] k = "updated_at" -> Stamped(obj.updated_at)
               [] OTHER -> obj[k] ])

\* WorkItem.from_dict
WorkItem_from_dict(data, clock) ==
  [ id |-> data.items["id"],
    title |-> data.items["title"],
    current_state |-> data.items["current_state"],
    workflow_name |-> DictGet(data, "workflow_name", Word("product_dev_v1")),
    meta |-> DictGet(data, "meta", PyDict(EmptyMap)),
    approval_flags |-> DictGet(data, "approval_flags", PyDict(EmptyMap)),
    created_at |-> Parsed(DictGet(data, "created_at", PyNone), clock),
    updated_at |-> Parsed(DictGet(data, "updated_at", PyNone), clock),
    history |-> DictGet(data, "history", PyList(<< >>)) ]

\* WorkItem.to_json / WorkItem.from_json
WorkItem_to_json(obj) == json_dumps(WorkItem_to_dict(obj))

WorkItem_from_json(json_str, clock) ==
  WorkItem_from_dict(json_loads(json_str), clock)

\* the payloads of the events: what a request body carries (a JSON object)
\* and what submit_approval builds from a comment
Payloads ==
  { PyDict(EmptyMap),
    PyDict("comment" :> Word("ok")),
    PyDict("details" :> Word("test")),
    PyDict(("coverage" :> PyInt(1)) @@ ("passed" :> PyBool(TRUE))
           @@ ("url" :> PyNone)),
    PyDict("report" :> PyDict("tags" :> PyList(<< Word("a"), PyInt(2) >>))) }

Sources == { "agent", "human", "system" }

\* the WorkItems that up to k events make of a new one
RECURSIVE Made(_)
Made(k) ==
  IF k = 0
    THEN { WorkItemCreate(id, "product_dev_v1") : id \in 1..MaxItems }
    ELSE Made(k - 1)
         \cup { HandleLoaded(work_item, name).item :
                  work_item \in Made(k - 1), name \in EventNames }

\* an event is built, written with to_json and read back with from_json
\* (the functions keep no state: a behaviour holds one serialisation)
EventTrip ==
  /\ trip.kind = None
  /\ \E name \in EventNames, work_item_id \in ItemIds, payload \in Payloads,
        source \in Sources, created_at \in Times :
       LET event == WorkflowEvent(name, work_item_id, payload, created_at,
                                  source)
           json_str == WorkflowEvent_to_json(event)
       IN  trip' = [ kind |-> "event", before |-> event, text |-> json_str,
                     after |-> WorkflowEvent_from_json(json_str, now) ]
  /\ UNCHANGED << storeVars, taskDb, lastLog, wfVars, qVars, nProcess,
                  inflight, loops, reviews, requests, resp, now, stepperVars,
                  nIngest, pollerVars >>

\* a WorkItem is saved (save_work_item: SET of to_json) and loaded again
\* (load_work_item: from_json of what GET returns)
WorkItemTrip ==
  /\ trip.kind = None
  /\ \E work_item \in Made(MaxTrip), created_at \in Times,
        updated_at \in Times :
       LET obj == WorkItemObject(work_item, created_at, updated_at)
           json_str == WorkItem_to_json(obj)
       IN  trip' = [ kind |-> "work_item", before |-> obj, text |-> json_str,
                     after |-> WorkItem_from_json(json_str, now) ]
  /\ UNCHANGED << storeVars, taskDb, lastLog, wfVars, qVars, nProcess,
                  inflight, loops, reviews, requests, resp, now, stepperVars,
                  nIngest, pollerVars >>

NextJson ==
  \/ EventTrip
  \/ WorkItemTrip

SpecJson == Init /\ [][NextJson]_vars

handler_registers(event_id, a) ==
  /\ prs < MaxPRs
  /\ handler_registers_call(event_id, a)

(***************************************************************************)
(* The Poller: handlers register PR waits, the callbacks are set,          *)
(* poll_once runs its two loops.                                           *)
(***************************************************************************)
Register ==
  \E event_id \in 1..MaxPRs, a \in PrAgents : handler_registers(event_id, a)

NextPoll ==
  \/ Register
  \/ set_merged_callback
  \/ set_changes_requested_callback
  \/ PollCheck
  \/ PollRemove

SpecPoll == Init /\ [][NextPoll]_vars

(***************************************************************************)
(* Poll cycles over several registrations at once: handlers register PR    *)
(* waits for up to MaxRegs envelopes, one each and all of them made by     *)
(* CodeAgent, poll_once runs its two loops.                                *)
(***************************************************************************)
RegisterMore ==
  /\ prs < MaxRegs
  /\ handler_registers_call(prs + 1, "CODE")

NextCycle ==
  \/ RegisterMore
  \/ set_merged_callback
  \/ PollCheck
  \/ PollRemove

SpecCycle == Init /\ [][NextCycle]_vars

(***************************************************************************)
(* Poll cycles next to the reviewers and the handlers: the stages that     *)
(* open pull requests register one wait after another for the same        *)
(* envelope (each under the envelope's event id, each for a new pull       *)
(* request), also while a cycle is between its two loops; a reviewer       *)
(* submits a CHANGES_REQUESTED review on a pull request, at most one per   *)
(* pull request; the review query of a cycle returns the reviews that are  *)
(* there (pr_review_service.py 69-131).                                    *)
(***************************************************************************)
RegisterSame ==
  /\ prs < MaxRegs
  /\ \E a \in PrAgents : handler_registers_call(1, a)

SubmitReview ==
  /\ \E pr \in (1..prs) \ reviews : reviews' = reviews \cup {pr}
  /\ UNCHANGED << storeVars, taskDb, lastLog, wfVars, qVars, nProcess,
                  inflight, loops, trip, requests, resp, now, stepperVars,
                  nIngest, pollerVars >>

NextReview ==
  \/ RegisterSame
  \/ SubmitReview
  \/ set_changes_requested_callback
  \/ PollCheckSeen
  \/ PollRemove

SpecReview == Init /\ [][NextReview]_vars

(***************************************************************************)
(* The background loops started and stopped while their threads run;      *)
(* handlers register PR waits, so that the Poller has cycles to run.       *)
(***************************************************************************)
restVars == << storeVars, taskDb, lastLog, wfVars, qVars, nProcess, inflight,
               reviews, requests, trip, resp, now, stepperVars, nIngest, pollerVars >>

StartWorker == start_loop("worker") /\ UNCHANGED restVars

StartPolling == start_loop("poller") /\ UNCHANGED restVars

StopWorker == stop_worker /\ UNCHANGED restVars

StopPolling == stop_polling /\ UNCHANGED restVars

StopPollingReturn == stop_polling_return /\ UNCHANGED restVars

LoopTest ==
  /\ \E l \in Loops : \E i \in DOMAIN loops[l].threads : loop_test(l, i)
  /\ UNCHANGED restVars

LoopDone ==
  /\ \E l \in Loops : \E i \in DOMAIN loops[l].threads : loop_done(l, i)
  /\ UNCHANGED restVars

LoopWake ==
  /\ \E l \in Loops : \E i \in DOMAIN loops[l].threads : loop_wake(l, i)
  /\ UNCHANGED restVars

NextStop ==
  \/ Register
  \/ StartWorker
  \/ StartPolling
  \/ StopWorker
  \/ StopPolling
  \/ StopPollingReturn
  \/ LoopTest
  \/ LoopDone
  \/ LoopWake

SpecStop == Init /\ [][NextStop]_vars

(***************************************************************************)
(* The Stepper next to the manual per-stage operation: tasks are ingested  *)
(* as strings, a second apart; a stage is processed on request; the        *)
(* Stepper ticks.                                                          *)
(***************************************************************************)
AgentProcess == \E a \in Agents : agent_process(a)

NextTick ==
  \/ IngestString
  \/ AgentProcess
  \/ StartTick
  \/ StepStage

SpecTick == Init /\ [][NextTick]_vars

(***************************************************************************)
(* The Stepper thread and the request threads of the manual operation,     *)
(* with the handler call as a step of its own: an iteration and a request  *)
(* pop the envelope and call the handler (Begin), the handler returns or   *)
(* raises later (End).  The Stepper is one thread and has at most one call *)
(* in flight; every request has its own.                                   *)
(***************************************************************************)
Call(owner, n, a, event) ==
  [ owner |-> owner, n |-> n, agent |-> a, event |-> event ]

StepperCalls == { c \in inflight : c.owner = "stepper" }

\* worker.py 30-60: skip an empty queue, or pop and call the handler
StepBegin ==
  /\ pos \in 1..Len(AGENT_ORDER)
  /\ StepperCalls = {}
  /\ LET a == AGENT_ORDER[pos]
     IN  IF queue[a] = << >>
           THEN /\ pos' = NextPos
                /\ ticks' = IF pos = Len(AGENT_ORDER) THEN ticks + 1 ELSE ticks
                /\ UNCHANGED << queue, taskDb, lastLog, inflight >>
           ELSE LET event == pop_result(queue, a)
                IN  /\ queue' = pop_event(queue, a)
                    /\ taskDb' = IF a = "REQUIREMENT"
                                   THEN create_task(taskDb, event.id)
                                   ELSE taskDb
                    /\ lastLog' = Log(a, event.id, "processing", "running")
                    /\ inflight' = inflight \cup { Call("stepper", 0, a, event) }
                    /\ UNCHANGED << pos, ticks >>
  /\ UNCHANGED << waitClar, waitAppr, loops, trip, reviews, requests, wfVars, qVars, nProcess, resp, now, nIngest,
                  pollerVars >>

\* worker.py 60-141: the handler returned or raised
StepEnd ==
  \E c \in StepperCalls :
    LET a == c.agent
        event == c.event
    IN  /\ pos' = NextPos
        /\ ticks' = IF pos = Len(AGENT_ORDER) THEN ticks + 1 ELSE ticks
        /\ inflight' = inflight \ {c}
        /\ \E oc \in Outcomes(a) :
             IF oc = "raise"
               THEN /\ taskDb' = update_task_status(taskDb, event.id, "FAILED")
                    /\ lastLog' = Log(a, event.id, "error", "failed")
                    /\ UNCHANGED << storeVars, pending, prs >>
               ELSE LET ev1 == process(a, event, oc)
                        br == Branch(ev1)
                    IN  /\ queue' = QueueAfter(queue, a, ev1)
                        /\ waitClar' = IF br = "clarification"
                                         THEN MapSet(waitClar, event.id, ev1)
                                         ELSE waitClar
                        /\ waitAppr' = IF br = "approval"
                                         THEN MapSet(waitAppr, event.id, ev1)
                                         ELSE waitAppr
                        /\ taskDb' = TaskDbAfter(taskDb, a, ev1)
                        /\ lastLog' = LogAfter(a, ev1)
                        /\ prs' = IF oc = "pr" THEN prs + 1 ELSE prs
                        /\ pending' =
                             IF oc = "pr"
                               THEN register_pr_wait(pending, event.id, prs + 1,
                                      a, next_agent(a), FinalEvent(a, ev1))
                               ELSE pending
        /\ UNCHANGED << loops, trip, reviews, requests, wfVars, qVars, nProcess, resp, now, nIngest, completed,
                        decided, pollPc, polls, on_pr_merged,
                        on_changes_requested, mergedCalls, reworkCalls >>

\* agent_router.py 138-156: pop and call the handler
ProcessBegin ==
  \E a \in Agents :
    /\ nProcess < MaxProcess
    /\ nProcess' = nProcess + 1
    /\ IF queue[a] = << >>
         THEN UNCHANGED << queue, lastLog, inflight >>
         ELSE LET event == pop_result(queue, a)
              IN  /\ queue' = pop_event(queue, a)
                  /\ lastLog' = Log(a, event.id, "processing", "running")
                  /\ inflight' = inflight
                       \cup { Call("manual", nProcess + 1, a, event) }
    /\ UNCHANGED << waitClar, waitAppr, loops, trip, reviews, requests, wfVars, qVars, taskDb, resp, now,
                    stepperVars, nIngest, pollerVars >>

\* agent_router.py 156-220: the handler returned or raised
ProcessEnd ==
  \E c \in inflight :
    LET a == c.agent
        event == c.event
    IN  /\ c.owner = "manual"
        /\ inflight' = inflight \ {c}
        /\ \E oc \in Outcomes(a) :
             IF oc = "raise"
               THEN UNCHANGED << storeVars, lastLog, pending, prs >>
               ELSE LET ev1 == process(a, event, oc)
                        suspend == a = "REQUIREMENT" /\ ev1.clar
                    IN  /\ queue' = IF ~suspend /\ next_agent(a) # None
                                      THEN push_event(queue, next_agent(a),
                                                      Advanced(a, ev1))
                                      ELSE queue
                        /\ waitClar' = IF suspend
                                         THEN MapSet(waitClar, event.id, ev1)
                                         ELSE waitClar
                        /\ lastLog' = IF suspend
                             THEN Log(a, event.id, "waiting for clarification",
                                      "pending")
                             ELSE Log(a, event.id, "processed", "success")
                        /\ prs' = IF oc = "pr" THEN prs + 1 ELSE prs
                        /\ pending' =
                             IF oc = "pr"
                               THEN register_pr_wait(pending, event.id, prs + 1,
                                      a, next_agent(a),
                                      IF suspend THEN ev1 ELSE Advanced(a, ev1))
                               ELSE pending
                        /\ UNCHANGED waitAppr
        /\ UNCHANGED << loops, trip, reviews, requests, wfVars, qVars, nProcess, taskDb, resp, now, stepperVars,
                        nIngest, completed, decided, pollPc, polls, on_pr_merged,
                        on_changes_requested, mergedCalls, reworkCalls >>

NextOwn ==
  \/ Ingest
  \/ StartTick
  \/ StepBegin
  \/ StepEnd
  \/ ProcessBegin
  \/ ProcessEnd

SpecOwn == Init /\ [][NextOwn]_vars

(***************************************************************************)
(* The queue store under a client that calls push_event and pop_event on   *)
(* two queue names.  up: get_redis() returns a client.                     *)
(***************************************************************************)
QNames == { "REQUIREMENT", "PLAN" }

Forms == { "raw", "full", "invalid" }

\* the n-th event a client hands to push_event
QueueEvent(n, form) == [ NewEnvelope(n, FALSE) EXCEPT !.form = form ]

\* push_event(queue_name, event), and what it logs
PushCall ==
  \E queue_name \in QNames, form \in Forms, up \in BOOLEAN :
    LET event == QueueEvent(Len(pushLog) + 1, form)
    IN  /\ Len(pushLog) < MaxPush
        /\ IF up
             THEN /\ queue' = push_event(queue, queue_name, event)
                  /\ pushLog' = Append(pushLog, [ queue_name |-> queue_name,
                                                  event |-> event ])
                  /\ lastLog' = IF IsValid(event)
                                  THEN Log("SYSTEM", 0, "pushed", "info")
                                  ELSE Log("SYSTEM", 0, "validation failed",
                                           "failed")
             ELSE /\ lastLog' = Log("SYSTEM", 0, "redis not available",
                                    "failed")
                  /\ UNCHANGED << queue, pushLog >>
        /\ qret' = [ op |-> "push", ok |-> up ]
        /\ UNCHANGED << nProcess, inflight, loops, trip, reviews, requests, popLog, waitClar, waitAppr, taskDb, wfVars, resp, now,
                        stepperVars, nIngest, pollerVars >>

\* pop_event(queue_name, validate)
PopCall ==
  \E queue_name \in QNames, validate \in BOOLEAN, up \in BOOLEAN :
    /\ IF up /\ queue[queue_name] # << >>
         THEN /\ queue' = pop_event(queue, queue_name)
              /\ popLog' = Append(popLog,
                    [ queue_name |-> queue_name,
                      event |-> IF validate
                                  THEN pop_result(queue, queue_name)
                                  ELSE Head(queue[queue_name]) ])
              /\ qret' = [ op |-> "pop", ok |-> TRUE ]
         ELSE /\ qret' = [ op |-> "pop", ok |-> FALSE ]
              /\ UNCHANGED << queue, popLog >>
    /\ UNCHANGED << nProcess, inflight, loops, trip, reviews, requests, pushLog, waitClar, waitAppr, taskDb, lastLog, wfVars, resp,
                    now, stepperVars, nIngest, pollerVars >>

NextQ ==
  \/ PushCall
  \/ PopCall

SpecQ == Init /\ [][NextQ]_vars

(***************************************************************************)
(* Properties of the pipeline.                                             *)
(***************************************************************************)
QueuedItems == UNION { Range(queue[a]) : a \in Agents }

QueuedIds == { e.id : e \in QueuedItems }

\* a Stepper iteration that popped an envelope happens in this step
StepperPops == /\ pos \in 1..Len(AGENT_ORDER)
               /\ pos' # pos
               /\ queue[AGENT_ORDER[pos]] # << >>

\* a resumption call (of either endpoint) happens in this step
ResumeCall == \E id \in KnownIds : event_clarify(id) \/ respond_to_pending(id)

\* C1: an envelope id registered in the PendingPR set is in no stage queue:
\* when a handler registered a PR wait and returned, the Stepper does not
\* push that envelope to the next stage's queue while the registration is
\* pending.
C1_PendingNotQueued ==
  \A i \in DOMAIN pending : pending[i].event_id \notin QueuedIds

\* C4: when a handler returns needs_clarification, the Stepper iteration
\* stores the returned envelope, with the data the handler returned, under
\* its id in the clarification store and pushes it to no queue; the later
\* iterations of the tick leave the stored envelope as it is; an envelope
\* with the flag set is never in a queue, so the suspended envelope reaches
\* a queue only through a resumption, which clears the flag.
C4_SuspensionNonAdvance ==
  /\ [][ (pos' # pos /\ pos > 1) => waitClar' = waitClar ]_vars
  /\ [][ (StepperPops /\ lastLog'.what = "waiting for clarification") =>
           LET a == AGENT_ORDER[pos]
               returned == process(a, Popped(Head(queue[a])), "clar")
           IN  /\ returned.id \in DOMAIN waitClar'
               /\ waitClar'[returned.id] = returned
               /\ DataKey(a) \in waitClar'[returned.id].data
               /\ queue' = [queue EXCEPT ![a] = Tail(@)] ]_vars
  /\ [](\A e \in QueuedItems : ~e.clar)

C4_Witness ==
  /\ lastLog.what = "waiting for clarification"
  /\ lastLog.event_id \in DOMAIN waitClar
  /\ pos = 2

\* C5: a resumption for an id that is not in the clarification store answers
\* 404, pushes nothing and changes no store; a successful one removes the id
\* and appends exactly one envelope to queue:REQUIREMENT, so the next call
\* for the same id finds nothing.
C5_ResumeNotFound ==
  [][ ResumeCall =>
        IF resp'.id \notin DOMAIN waitClar
          THEN /\ resp'.code = 404
               /\ UNCHANGED << queue, waitClar, waitAppr, pending, taskDb >>
          ELSE /\ resp'.code = 200
               /\ resp'.id \notin DOMAIN waitClar'
               /\ Len(queue'["REQUIREMENT"]) = Len(queue["REQUIREMENT"]) + 1
               /\ SubSeq(queue'["REQUIREMENT"], 1, Len(queue["REQUIREMENT"]))
                    = queue["REQUIREMENT"]
               /\ queue'["REQUIREMENT"][Len(queue'["REQUIREMENT"])].id = resp'.id
               /\ \A a \in Agents \ {"REQUIREMENT"} : queue'[a] = queue[a] ]_vars

\* the second of two sequential resumptions of one id has just failed
C5_Witness ==
  /\ resp.code = 404
  /\ lastLog.what = "response received"
  /\ lastLog.event_id = resp.id
  /\ Cardinality({ i \in DOMAIN queue["REQUIREMENT"] :
                     queue["REQUIREMENT"][i].id = resp.id }) = 1

\* C16: an envelope enters the clarification store only in the Stepper
\* iteration of the stage whose handler returned it with needs_clarification
\* set, and that stage is its current_stage; a successful clarification
\* resumption removes it from the store and appends it, flag cleared, to the
\* queue of that stage and changes no other stage's queue.
C16_ResumeToSuspendingStage ==
  /\ [][ \A id \in DOMAIN waitClar' :
           (id \notin DOMAIN waitClar \/ waitClar'[id] # waitClar[id]) =>
             /\ StepperPops
             /\ lastLog'.what = "waiting for clarification"
             /\ waitClar'[id].clar
             /\ waitClar'[id].stage = AGENT_ORDER[pos] ]_vars
  /\ [][ (ResumeCall /\ resp'.code = 200) =>
           LET stored == waitClar[resp'.id]
               s == stored.stage
               last == queue'[s][Len(queue'[s])]
           IN  /\ resp'.id \notin DOMAIN waitClar'
               /\ Len(queue'[s]) = Len(queue[s]) + 1
               /\ last.id = stored.id
               /\ last.data = stored.data
               /\ ~last.clar
               /\ \A a \in Agents \ {s} : queue'[a] = queue[a] ]_vars

\* a suspended envelope has just been resumed and waits in the queue of the
\* stage that suspended it
C16_Witness ==
  /\ resp.code = 200
  /\ resp.id \notin DOMAIN waitClar
  /\ \E i \in DOMAIN queue["REQUIREMENT"] :
       LET e == queue["REQUIREMENT"][i]
       IN  /\ e.id = resp.id
           /\ e.stage = "REQUIREMENT"
           /\ e.hist[Len(e.hist)] \in {"CLARIFICATION", "CLARIFICATION_RESPONSE"}
           /\ Len(e.prompt) = 2

\* C17: a human response submitted for an envelope held in the approval
\* store removes it from the approval store and appends it to the queue of
\* the stage that suspended it.
C17_ApprovalResumed ==
  [][ \A id \in DOMAIN waitAppr :
        (ResumeCall /\ resp'.id = id) =>
          LET s == waitAppr[id].stage
          IN  /\ id \notin DOMAIN waitAppr'
              /\ Len(queue'[s]) = Len(queue[s]) + 1
              /\ queue'[s][Len(queue'[s])].id = id ]_vars

\* the first tick has returned, it started with the only envelope in
\* queue:REQUIREMENT, and no handler asked for clarification or approval,
\* reported an error or raised
OneCleanTick ==
  /\ ticks = 1
  /\ pos = 0
  /\ nIngest = 1
  /\ DOMAIN taskDb # {}
  /\ waitClar = EmptyMap
  /\ waitAppr = EmptyMap
  /\ \A id \in DOMAIN taskDb : taskDb[id] # "FAILED"

\* C7 as stated: after one call of process_queues_once the envelope is in
\* queue:PLAN with data.requirement set and one more history entry, and not
\* in queue:REQUIREMENT.
C7_InPlanAfterTick ==
  OneCleanTick =>
    /\ queue["REQUIREMENT"] = << >>
    /\ \E e \in Range(queue["PLAN"]) :
         "requirement" \in e.data /\ e.hist = << "INGRESS", "REQUIREMENT" >>

\* C7 amended: the REQUIREMENT iteration of a tick that ends in the advance
\* branch leaves the popped envelope at the tail of queue:PLAN with
\* data.requirement set and exactly one more history entry, and removes it
\* from queue:REQUIREMENT; the same call goes on to the later stages, so
\* when it returns queue:PLAN no longer holds the envelope.
C7_AfterRequirementStep ==
  /\ [][ (StepperPops /\ pos = 1 /\ lastLog'.what = "completed") =>
           LET e == Head(queue["REQUIREMENT"])
               pushed == queue'["PLAN"][Len(queue'["PLAN"])]
           IN  /\ Len(queue'["PLAN"]) = Len(queue["PLAN"]) + 1
               /\ pushed.id = e.id
               /\ "requirement" \in pushed.data
               /\ pushed.hist = Append(e.hist, "REQUIREMENT")
               /\ Len(pushed.hist) = Len(e.hist) + 1
               /\ queue'["REQUIREMENT"] = Tail(queue["REQUIREMENT"]) ]_vars
  /\ [](OneCleanTick => queue["PLAN"] = << >>)

C7_Witness ==
  /\ ticks = 0
  /\ pos = 2
  /\ nIngest = 1
  /\ lastLog.what = "completed"
  /\ lastLog.agent = "REQUIREMENT"
  /\ Len(queue["PLAN"]) = 1

StoredItems == Range(waitClar) \cup Range(waitAppr)

\* the ids of the envelopes in a queue or in a suspension store
PresentIds == QueuedIds \cup { e.id : e \in StoredItems }

\* C27: every ingested envelope gets an event id that no other ingested
\* envelope has, also when two ingests fall into one clock second, and no
\* Stepper tick or resumption changes the id of an envelope: a step that is
\* no ingest brings no id into the queues and stores that was not there
C27_UniqueStableIds ==
  /\ [][ nIngest' = nIngest + 1 =>
          lastLog'.event_id \notin PresentIds \cup DOMAIN taskDb ]_vars
  /\ [][ nIngest' = nIngest => PresentIds' \subseteq PresentIds ]_vars

\* the envelopes in a queue or in a suspension store
PresentItems == QueuedItems \cup StoredItems

IsPrefix(h, g) == Len(h) <= Len(g) /\ SubSeq(g, 1, Len(h)) = h

\* C28: the history of an envelope is append-only: whatever a Stepper
\* iteration, a suspension or a resumption puts into a queue or a suspension
\* store is an envelope that was there before the step, with the same id and
\* with that envelope's history as a prefix of its own
C28_HistoryAppendOnly ==
  [][ nIngest' = nIngest =>
        \A x \in PresentItems' \ PresentItems :
          \E y \in PresentItems :
            y.id = x.id /\ IsPrefix(y.hist, x.hist) ]_vars

\* the tick is over; an envelope it suspended for clarification was resumed
\* and waits in queue:REQUIREMENT with one entry more than it was ingested
\* with
C28_Witness ==
  /\ pos = 0 /\ ticks = 1
  /\ waitClar = EmptyMap
  /\ resp.code = 200
  /\ Len(queue["REQUIREMENT"]) = 1
  /\ queue["REQUIREMENT"][1].hist = << "INGRESS", "CLARIFICATION" >>

\* C29: a Stepper tick visits the stages in AGENT_ORDER, each once, and an
\* iteration pops at most the head of its own stage's queue and pops from no
\* other queue, so a tick takes at most one envelope from every queue; the
\* iteration of a stage whose queue is not empty pops its head whatever the
\* queues of the other stages hold
C29_OnePopPerStage ==
  /\ [][ pos' # pos => pos' = (pos + 1) % (Len(AGENT_ORDER) + 1) ]_vars
  /\ [][ ( queue' # queue /\ nIngest' = nIngest /\ nProcess' = nProcess
                          /\ resp' = resp ) =>
          pos \in 1..Len(AGENT_ORDER) /\ pos' # pos ]_vars
  /\ [][ ( pos \in 1..Len(AGENT_ORDER) /\ pos' # pos ) =>
          \A b \in Agents :
            IF b = AGENT_ORDER[pos] /\ queue[b] # << >>
              THEN /\ Len(queue'[b]) >= Len(queue[b]) - 1
                   /\ IsPrefix(Tail(queue[b]), queue'[b])
              ELSE IsPrefix(queue[b], queue'[b]) ]_vars

\* two envelopes were ingested and the first was moved to queue:PLAN by
\* hand; the tick that followed took the second from queue:REQUIREMENT and
\* the first from queue:PLAN, and left the second in queue:PLAN
C29_Witness ==
  /\ pos = 0 /\ ticks = 1 /\ nProcess = 1 /\ nIngest = 2
  /\ queue["REQUIREMENT"] = << >>
  /\ Len(queue["PLAN"]) = 1
  /\ queue["PLAN"][1].id = 2
  /\ queue["PLAN"][1].hist = << "INGRESS", "REQUIREMENT" >>
  /\ 1 \notin PresentIds

\* C30: when the handler of a Stepper iteration returns the envelope with
\* no clarification, approval or error, the Stepper appends one history
\* entry naming the stage and pushes the envelope to the tail of the queue of
\* the stage's next_agent; when there is no next_agent the task is marked
\* COMPLETED and the envelope goes to no queue and no store; no queue or
\* store ever holds a COMPLETED envelope, so none is processed again
C30_AdvanceOrComplete ==
  /\ [][ (StepperPops /\ lastLog'.what = "completed") =>
           LET a == AGENT_ORDER[pos]
               e == Head(queue[a])
               n == next_agent(a)
           IN  /\ n \in Agents \ { a }
               /\ lastLog' = Log(a, e.id, "completed", "success")
               /\ Len(queue'[n]) = Len(queue[n]) + 1
               /\ LET pushed == queue'[n][Len(queue'[n])]
                  IN  /\ queue' = [ queue EXCEPT ![a] = Tail(@),
                                                 ![n] = Append(@, pushed) ]
                      /\ pushed.id = e.id
                      /\ pushed.hist = Append(e.hist, a)
                      /\ pushed.stage = n
                      /\ pushed.tstatus # "COMPLETED"
               /\ UNCHANGED << waitClar, waitAppr >> ]_vars
  /\ [][ (StepperPops /\ lastLog'.what = "pipeline completed") =>
           LET a == AGENT_ORDER[pos]
               e == Head(queue[a])
           IN  /\ next_agent(a) = None
               /\ lastLog' = Log("SYSTEM", e.id, "pipeline completed",
                                 "success")
               /\ e.id \in DOMAIN taskDb' => taskDb'[e.id] = "COMPLETED"
               /\ queue' = [ queue EXCEPT ![a] = Tail(@) ]
               /\ UNCHANGED << waitClar, waitAppr >> ]_vars
  /\ [](\A e \in PresentItems : e.tstatus # "COMPLETED")

\* the tick has taken the first envelope through the last stage: its task
\* is COMPLETED and it is in no queue and no store, while an envelope
\* ingested during the tick waits in queue:REQUIREMENT
C30_Witness ==
  /\ pos = 0 /\ ticks = 1 /\ nIngest = 2
  /\ lastLog.what = "pipeline completed"
  /\ lastLog.event_id \in DOMAIN taskDb
  /\ taskDb[lastLog.event_id] = "COMPLETED"
  /\ lastLog.event_id \notin PresentIds
  /\ Len(queue["REQUIREMENT"]) = 1
  /\ waitClar = EmptyMap /\ waitAppr = EmptyMap

C21_StoppedLoopIsIdle ==
  \A l \in Loops :
    loops[l].stopped =>
      \A i \in DOMAIN loops[l].threads : loops[l].threads[i] # "busy"

\* C14: no two handler calls in flight are for the same envelope id.
C14_OneActiveOwner ==
  \A c, d \in inflight : c # d => c.event.id # d.event.id

(***************************************************************************)
(* Properties of the workflow.                                             *)
(***************************************************************************)
\* an Orchestrator event call on a saved WorkItem happens in this step
EventCall == nEvents' = nEvents + 1 /\ call'.id \in DOMAIN workItems

\* C2: for a WorkItem in DESIGN, handle_event of one of the two approvals
\* succeeds; while the other approval is not flagged the state stays DESIGN
\* and the saved flags are exactly that approval; when the other approval is
\* flagged the saved state is CODING and the saved flags are empty.  The
\* same holds for both orders of the two approvals.
C2_MultiApproval ==
  [][ ( /\ EventCall
        /\ workItems[call'.id].current_state = "DESIGN"
        /\ call'.name \in Range(requires_approvals("DESIGN")) ) =>
          LET id == call'.id
              A == call'.name
              B == CHOOSE b \in Range(requires_approvals("DESIGN")) : b # A
          IN  /\ result'.ok
              /\ IF B \notin workItems[id].approval_flags
                   THEN /\ workItems'[id].current_state = "DESIGN"
                        /\ workItems'[id].approval_flags = { A }
                   ELSE /\ workItems[id].approval_flags = { B }
                        /\ workItems'[id].current_state = "CODING"
                        /\ workItems'[id].approval_flags = {} ]_vars

\* ARCH_APPROVED, then UX_APPROVED, have taken a WorkItem to CODING
C2_Witness ==
  /\ call.id \in DOMAIN workItems
  /\ call.name = "UX_APPROVED"
  /\ LET h == workItems[call.id].history
         n == Len(h)
     IN  /\ workItems[call.id].current_state = "CODING"
         /\ workItems[call.id].approval_flags = {}
         /\ result.ok
         /\ n >= 3
         /\ h[n].state = "CODING"
         /\ h[n - 1].message = << "Approval received", "UX_APPROVED" >>
         /\ h[n - 2].message = << "Approval received", "ARCH_APPROVED" >>

C19_CodingNeedsAllApprovals ==
  [][ ( /\ EventCall
        /\ workItems[call'.id].current_state = "DESIGN"
        /\ workItems'[call'.id].current_state = "CODING" ) =>
          /\ call'.name \in Range(requires_approvals("DESIGN"))
          /\ all_approved(workItems[call'.id].approval_flags \cup { call'.name },
                          requires_approvals("DESIGN")) ]_vars

\* the event whose transition a successful call takes: the submitted event,
\* or the combined event when the submitted one is a required approval
TakenEvent(s, name) ==
  IF name \in Range(requires_approvals(s))
    THEN _get_combined_approval_event(requires_approvals(s))
    ELSE name

\* how many of the jobs are for agent a
JobsFor(jobs, a) == Cardinality({ i \in DOMAIN jobs : jobs[i] = a })

\* C25: product_dev_v1 is closed: its initial state and the target of every
\* transition are declared states, and every event a state requires as an
\* approval is a key of that state's transitions; so whatever sequence of
\* create_work_item, handle_event and submit_approval calls is made, every
\* persisted WorkItem is in a declared state and handle_event never reports
\* "Invalid state"
C25_DeclaredStatesOnly ==
  /\ \A workflow_name \in WORKFLOW_REGISTRY :
       initial_state(workflow_name) \in States
  /\ \A s \in States :
       /\ \A name \in DOMAIN transitions(s) : transitions(s)[name] \in States
       /\ \A i \in DOMAIN requires_approvals(s) :
            requires_approvals(s)[i] \in DOMAIN transitions(s)
  /\ \A id \in DOMAIN workItems : workItems[id].current_state \in States
  /\ Head(result.msg) # "Invalid state"

\* a WorkItem went to DESIGN, was rejected back to REQUIREMENTS, and was
\* then sent an event REQUIREMENTS has no transition for
C25_Witness ==
  /\ nEvents = 4
  /\ call = [ id |-> 1, name |-> "PLAN_COMPLETED" ]
  /\ result = [ ok |-> FALSE,
                msg |-> << "Invalid transition", "REQUIREMENTS",
                           "PLAN_COMPLETED" >> ]
  /\ workItems[1].current_state = "REQUIREMENTS"
  /\ [ k \in DOMAIN workItems[1].history |-> workItems[1].history[k].state ]
       = << "CREATED", "PLANNING", "DESIGN", "REQUIREMENTS" >>

\* C26: submit_approval(UX or ARCH, approved = false) on a WorkItem in
\* DESIGN moves it to REQUIREMENTS and clears every approval flag recorded so
\* far; a WorkItem that enters DESIGN has no flag set, and from there one
\* approval alone does not take it out of DESIGN; submit_approval with a
\* type other than UX, ARCH and RELEASE fails and changes nothing
C26_RejectionClearsApprovals ==
  /\ [][ ( /\ EventCall
           /\ call'.name = "DESIGN_REJECTED"
           /\ workItems[call'.id].current_state = "DESIGN" ) =>
          /\ result' = [ ok |-> TRUE,
                         msg |-> << "Transitioned to", "REQUIREMENTS" >> ]
          /\ workItems'[call'.id].current_state = "REQUIREMENTS"
          /\ workItems'[call'.id].approval_flags = {} ]_vars
  /\ [][ \A id \in DOMAIN workItems :
            ( /\ workItems[id].current_state # "DESIGN"
              /\ workItems'[id].current_state = "DESIGN" ) =>
              workItems'[id].approval_flags = {} ]_vars
  /\ [][ ( /\ EventCall
           /\ workItems[call'.id].current_state = "DESIGN"
           /\ workItems[call'.id].approval_flags = {}
           /\ call'.name \in Range(requires_approvals("DESIGN")) ) =>
          /\ workItems'[call'.id].current_state = "DESIGN"
          /\ workItems'[call'.id].approval_flags = { call'.name } ]_vars
  /\ [][ ( nEvents' = nEvents + 1 /\ call'.name = None ) =>
          /\ result' = [ ok |-> FALSE, msg |-> << "Unknown approval type" >> ]
          /\ writes' = << >>
          /\ UNCHANGED << workItems, queue >> ]_vars

\* a WorkItem was rejected in DESIGN with its UX approval recorded, came
\* back to DESIGN, and its ARCH approval alone left it in DESIGN
C26_Witness ==
  /\ nEvents = 7
  /\ call = [ id |-> Walked, name |-> "ARCH_APPROVED" ]
  /\ workItems[Walked].current_state = "DESIGN"
  /\ workItems[Walked].approval_flags = { "ARCH_APPROVED" }
  /\ [ k \in DOMAIN workItems[Walked].history |->
         workItems[Walked].history[k].state ]
       = << "CREATED", "PLANNING", "DESIGN", "DESIGN", "REQUIREMENTS",
            "PLANNING", "DESIGN", "DESIGN" >>

\* C24: create_work_item with a registered workflow name persists one new
\* WorkItem whose current state is the initial state that workflow declares,
\* with no approval flag, and enqueues the on_enter jobs of that state and
\* nothing else; with an unknown workflow name it raises and persists no
\* WorkItem, adds no id to the index and enqueues no job
C24_Created == DOMAIN workItems' # DOMAIN workItems

C24_Raised == result' # result /\ result'.msg = << "Unknown workflow" >>

C24_CreateWorkItem ==
  /\ [][ C24_Created =>
          \E id \in DOMAIN workItems' :
            LET item == workItems'[id]
                s == initial_state(item.workflow_name)
            IN  /\ id \notin DOMAIN workItems
                /\ workItems' = MapSet(workItems, id, item)
                /\ item.workflow_name \in WORKFLOW_REGISTRY
                /\ item.current_state = s
                /\ item.approval_flags = {}
                /\ \A a \in Agents :
                     /\ Len(queue'[a]) = Len(queue[a]) + JobsFor(on_enter(s), a)
                     /\ SubSeq(queue'[a], 1, Len(queue[a])) = queue[a]
                     /\ \A k \in (Len(queue[a]) + 1)..Len(queue'[a]) :
                          /\ queue'[a][k].work_item_id = id
                          /\ queue'[a][k].agent = a
                /\ writes' = << [ op |-> "SET", key |-> id, state |-> s ] >>
                     \o [ i \in DOMAIN on_enter(s) |->
                            [ op |-> "RPUSH", key |-> on_enter(s)[i] ] ] ]_vars
  /\ [][ C24_Raised =>
          /\ writes' = << >>
          /\ UNCHANGED << workItems, queue >> ]_vars

\* a WorkItem is saved in REQUIREMENTS with its one job waiting, and a
\* create_work_item with an unknown workflow name raised after an event call
\* and left all of it as it was
C24_Witness ==
  /\ result = [ ok |-> FALSE, msg |-> << "Unknown workflow" >> ]
  /\ writes = << >>
  /\ nEvents = 1
  /\ DOMAIN workItems = { 1 }
  /\ workItems[1].current_state = "REQUIREMENTS"
  /\ workItems[1].workflow_name = "product_dev_v1"
  /\ Len(queue["REQUIREMENT"]) = 1
  /\ queue["REQUIREMENT"][1].work_item_id = 1
  /\ \A a \in Agents \ { "REQUIREMENT" } : queue[a] = << >>

\* C20: a call that takes a transition, directly or on the last required
\* approval, first saves the WorkItem with the new current_state and a new
\* last history entry for it, then enqueues one job for every action of the
\* transition, in order, then one job for every on_enter action of the
\* state entered, in order; nothing is enqueued before the save, and every
\* job goes to the end of its agent's queue.
C20_PersistThenEnqueue ==
  [][ ( /\ EventCall
        /\ result'.ok
        /\ result'.msg[1] \in { "Transitioned to",
                                "All approvals received. Transitioned to" } ) =>
          LET id == call'.id
              s == workItems[id].current_state
              e == TakenEvent(s, call'.name)
              to == transitions(s)[e]
              jobs == transition_actions(s, e) \o on_enter(to)
              h == workItems'[id].history
          IN  /\ workItems'[id].current_state = to
              /\ Len(h) > Len(workItems[id].history)
              /\ h[Len(h)].state = to
              /\ Len(writes') = 1 + Len(jobs)
              /\ writes'[1] = [ op |-> "SET", key |-> id, state |-> to ]
              /\ \A i \in DOMAIN jobs :
                   writes'[i + 1] = [ op |-> "RPUSH", key |-> jobs[i] ]
              /\ \A a \in Agents :
                   /\ Len(queue'[a]) = Len(queue[a]) + JobsFor(jobs, a)
                   /\ SubSeq(queue'[a], 1, Len(queue[a])) = queue[a]
                   /\ \A i \in (Len(queue[a]) + 1)..Len(queue'[a]) :
                        /\ queue'[a][i].work_item_id = id
                        /\ queue'[a][i].agent = a ]_vars

\* the second approval has just taken a WorkItem to CODING: it was saved,
\* then the job of CODING's on_enter action was enqueued
C20_Witness ==
  /\ call.id \in DOMAIN workItems
  /\ call.name \in { "UX_APPROVED", "ARCH_APPROVED" }
  /\ result.ok
  /\ workItems[call.id].current_state = "CODING"
  /\ writes = << [ op |-> "SET", key |-> call.id, state |-> "CODING" ],
                 [ op |-> "RPUSH", key |-> "CODE" ] >>
  /\ queue["CODE"] # << >>
  /\ queue["CODE"][Len(queue["CODE"])].work_item_id = call.id

\* C3: handle_event of an event name that is no key of the transitions of
\* the WorkItem's state returns failure, and what is saved of every
\* WorkItem (state and approval flags among it) and every queue are as they
\* were before the call.
C3_UnknownEventRejected ==
  [][ ( /\ EventCall
        /\ call'.name \notin
             DOMAIN transitions(workItems[call'.id].current_state) ) =>
          /\ ~result'.ok
          /\ workItems'[call'.id].current_state
               = workItems[call'.id].current_state
          /\ workItems'[call'.id].approval_flags
               = workItems[call'.id].approval_flags
          /\ workItems' = workItems
          /\ queue' = queue ]_vars

\* an event was rejected in DESIGN while an approval flag was recorded
C3_Witness ==
  /\ ~result.ok
  /\ result.msg[1] = "Invalid transition"
  /\ call.id \in DOMAIN workItems
  /\ workItems[call.id].current_state = "DESIGN"
  /\ workItems[call.id].approval_flags # {}

(***************************************************************************)
(* Properties of the Poller.                                               *)
(***************************************************************************)
\* how often a PR number occurs in a callback log
Count(log, pr) == Cardinality({ i \in DOMAIN log : log[i] = pr })

PendingPrs == { pending[i].pr_number : i \in DOMAIN pending }

\* the first loop of poll_once runs in this step
FirstLoop == pollPc = "idle" /\ pollPc' = "remove"

\* the second loop of poll_once runs in this step
SecondLoop == pollPc = "remove" /\ pollPc' = "idle"

\* the registration is within the timeout horizon when the clock reads clock
WithinHorizon(reg, clock) == clock - reg.created_at <= TimeoutSeconds

\* C15: the pending set holds at most one registration per event id, and a
\* registration (known by its PR number) leaves the pending set only in the
\* second loop of a poll cycle whose first loop put it in completed as
\* merged, closed or timed out; a handler's register_pr_wait removes none.
C15_LeavesOnlyDecided ==
  /\ [](\A i, j \in DOMAIN pending :
          pending[i].event_id = pending[j].event_id => i = j)
  /\ [][ \A n \in PendingPrs :
           n \notin PendingPrs' =>
             /\ SecondLoop
             /\ \E i \in DOMAIN completed :
                  /\ completed[i].pr_number = n
                  /\ IsCompleted(completed[i].status) ]_vars

\* a registration the first loop took as merged is in the list completed,
\* marked merged
MergedIsCompleted ==
  [][ FirstLoop =>
        \A i \in DOMAIN decided' :
          decided'[i].decision = "merged" =>
            \E k \in DOMAIN completed' :
              /\ completed'[k].pr_number = decided'[i].pr_number
              /\ completed'[k].status = "merged" ]_vars

\* the merged callback is invoked at most once for a PR, and only for a PR
\* whose registration is gone
MergedAtMostOnce ==
  [](\A pr \in 1..prs :
       /\ Count(mergedCalls, pr) <= 1
       /\ Count(mergedCalls, pr) = 1 => pr \notin PendingPrs)

\* C8 as stated: a registration within the horizon whose PR is merged at a
\* poll cycle is taken as merged; the cycle invokes the merged callback
\* exactly once for it and removes it; the callback is never invoked for it
\* again.
C8_MergedCallbackOnce ==
  /\ [](\A i \in DOMAIN pending, ob \in Observations, el \in Elapsed :
          (WithinHorizon(pending[i], now + el) /\ ob.status = "merged") =>
            Decide(pending[i], ob, now + el) = "merged")
  /\ MergedIsCompleted
  /\ [][ SecondLoop =>
           \A k \in DOMAIN completed :
             completed[k].status = "merged" =>
               /\ completed[k].pr_number \notin PendingPrs'
               /\ Count(mergedCalls, completed[k].pr_number) = 0
               /\ Count(mergedCalls', completed[k].pr_number) = 1 ]_vars
  /\ MergedAtMostOnce

\* C8 amended: a registration within the horizon for which the review query
\* of a poll cycle returns no CHANGES_REQUESTED review and the status query
\* returns merged is taken as merged; the cycle removes it and, when a
\* merged callback is set, invokes the callback exactly once for it; without
\* a callback nothing is invoked; the callback is never invoked for it
\* again.
C8_MergedCallbackWhenSeen ==
  /\ [](\A i \in DOMAIN pending, ob \in Observations, el \in Elapsed :
          ( /\ WithinHorizon(pending[i], now + el)
            /\ ob.review = "none"
            /\ ob.status = "merged" ) =>
            Decide(pending[i], ob, now + el) = "merged")
  /\ MergedIsCompleted
  /\ [][ SecondLoop =>
           /\ \A k \in DOMAIN completed :
                completed[k].status = "merged" =>
                  /\ completed[k].pr_number \notin PendingPrs'
                  /\ Count(mergedCalls, completed[k].pr_number) = 0
                  /\ on_pr_merged =>
                       Count(mergedCalls', completed[k].pr_number) = 1
           /\ ~on_pr_merged => mergedCalls' = mergedCalls ]_vars
  /\ MergedAtMostOnce

\* a cycle invoked the merged callback for a PR and removed its
\* registration, and a later cycle has run
C8_Witness ==
  /\ pollPc = "idle"
  /\ polls = 2
  /\ prs = 1
  /\ on_pr_merged
  /\ mergedCalls = << 1 >>
  /\ pending = << >>
  /\ completed = << >>

\* a callback is invoked only for a registration the cycle in flight took
\* as merged (merged callback) or as rework (rework callback), and a PR
\* number that left the pending set never returns to it
CallbacksOnlyForDecided ==
  /\ [][ \A pr \in 1..prs :
           Count(mergedCalls', pr) > Count(mergedCalls, pr) =>
             /\ SecondLoop
             /\ \E k \in DOMAIN completed :
                  /\ completed[k].pr_number = pr
                  /\ completed[k].status = "merged" ]_vars
  /\ [][ \A pr \in 1..prs :
           Count(reworkCalls', pr) > Count(reworkCalls, pr) =>
             /\ FirstLoop
             /\ \E i \in DOMAIN decided' :
                  /\ decided'[i].pr_number = pr
                  /\ decided'[i].decision = "rework" ]_vars
  /\ [][ \A pr \in 1..prs : pr \in PendingPrs' => pr \in PendingPrs ]_vars

\* C9: a registration whose age exceeds the horizon at a poll cycle is taken
\* as timed out whatever the review and the status of its PR are; the cycle
\* marks it timeout, puts it in the list completed and removes it, and
\* invokes neither callback for it; later no callback is invoked for it.
C9_TimeoutTerminal ==
  /\ [](\A i \in DOMAIN pending, ob \in Observations, el \in Elapsed :
          (now + el) - pending[i].created_at > TimeoutSeconds =>
            Decide(pending[i], ob, now + el) = "timeout")
  /\ [][ FirstLoop =>
           \A i \in DOMAIN decided' :
             decided'[i].decision = "timeout" =>
               /\ now' - pending[i].created_at > TimeoutSeconds
               /\ pending'[i].status = "timeout"
               /\ \E k \in DOMAIN completed' : completed'[k] = pending'[i]
               /\ Count(reworkCalls', decided'[i].pr_number)
                    = Count(reworkCalls, decided'[i].pr_number)
               /\ mergedCalls' = mergedCalls ]_vars
  /\ [][ SecondLoop =>
           \A k \in DOMAIN completed :
             completed[k].status = "timeout" =>
               /\ completed[k].pr_number \notin PendingPrs'
               /\ Count(mergedCalls', completed[k].pr_number)
                    = Count(mergedCalls, completed[k].pr_number)
               /\ reworkCalls' = reworkCalls ]_vars
  /\ CallbacksOnlyForDecided

\* a cycle with both callbacks set has timed a registration out and removed
\* it, and no callback was invoked
C9_Witness ==
  /\ pollPc = "idle"
  /\ on_pr_merged
  /\ on_changes_requested
  /\ Len(completed) = 1
  /\ completed[1].status = "timeout"
  /\ now - completed[1].created_at > TimeoutSeconds
  /\ pending = << >>
  /\ mergedCalls = << >>
  /\ reworkCalls = << >>

\* a registration the first loop took as rework is not touched by the
\* cycle: it stays in the pending set with status pending, is not in the
\* list completed, and the merged callback is not invoked for it
ReworkStaysPending ==
  /\ [][ FirstLoop =>
           \A i \in DOMAIN decided' :
             decided'[i].decision = "rework" =>
               /\ pending'[i] = pending[i]
               /\ pending'[i].status = "pending"
               /\ \A k \in DOMAIN completed' :
                    completed'[k].pr_number # decided'[i].pr_number
               /\ mergedCalls' = mergedCalls ]_vars
  /\ [][ SecondLoop =>
           \A i \in DOMAIN decided :
             decided[i].decision = "rework" =>
               /\ Count(mergedCalls', decided[i].pr_number)
                    = Count(mergedCalls, decided[i].pr_number)
               /\ \A j \in DOMAIN pending :
                    pending[j].pr_number = decided[i].pr_number =>
                      \E m \in DOMAIN pending' : pending'[m] = pending[j] ]_vars

\* a registration within the horizon whose PR has a CHANGES_REQUESTED
\* review is taken as rework
ChangesIsRework ==
  [](\A i \in DOMAIN pending, ob \in Observations, el \in Elapsed :
       (WithinHorizon(pending[i], now + el) /\ ob.review = "changes") =>
         Decide(pending[i], ob, now + el) = "rework")

\* C10 as stated: for a registration within the horizon whose PR has a
\* CHANGES_REQUESTED review the cycle invokes the rework callback, does not
\* invoke the merged callback, and leaves the registration pending.
C10_ReworkCallbackInvoked ==
  /\ ChangesIsRework
  /\ [][ FirstLoop =>
           \A i \in DOMAIN decided' :
             decided'[i].decision = "rework" =>
               Count(reworkCalls', decided'[i].pr_number)
                 = Count(reworkCalls, decided'[i].pr_number) + 1 ]_vars
  /\ ReworkStaysPending

\* C10 amended: for a registration within the horizon for which the review
\* query returns a CHANGES_REQUESTED review, the cycle invokes the rework
\* callback once when one is set and nothing when none is set, does not
\* invoke the merged callback, and leaves the registration pending with
\* status pending, also when the rework callback raises.
C10_ReworkWhenCallbackSet ==
  /\ ChangesIsRework
  /\ [][ FirstLoop =>
           \A i \in DOMAIN decided' :
             decided'[i].decision = "rework" =>
               Count(reworkCalls', decided'[i].pr_number)
                 = Count(reworkCalls, decided'[i].pr_number)
                     + (IF on_changes_requested THEN 1 ELSE 0) ]_vars
  /\ ReworkStaysPending

\* a cycle invoked the rework callback for a registration, the callback
\* raised (nothing was enqueued), and the registration is still pending
C10_Witness ==
  /\ pollPc = "idle"
  /\ polls = 1
  /\ on_changes_requested
  /\ on_pr_merged
  /\ reworkCalls = << 1 >>
  /\ mergedCalls = << >>
  /\ completed = << >>
  /\ Len(pending) = 1
  /\ pending[1].pr_number = 1
  /\ pending[1].status = "pending"
  /\ \A a \in Agents : queue[a] = << >>

\* a PR found merged, with no review that asks for changes
MergedSeen == [ review |-> "none", status |-> "merged" ]

\* C22: when the review client or the status client raises while a
\* registration is checked, the cycle keeps that registration: it stays in
\* the pending set as it was, is in the list completed of no loop, gets no
\* callback, and is checked again by the next cycle.  Every registration
\* of the pending set is checked in the cycle, and what is decided for the
\* others is carried out: one that is completed is marked, listed and
\* removed, whether it comes before or after the one that raised.  The
\* first loop is always followed by the second: the cycle does not end in
\* the raise.
C22_ClientFailureIsLocal ==
  /\ [](\A i \in DOMAIN pending, ob \in Observations, el \in Elapsed :
          Raised(pending[i], ob, now + el) =>
            Decide(pending[i], ob, now + el) = "keep")
  /\ [](\A el \in { e \in Elapsed : pollPc = "idle" } :
          LET cycle == Checks(pending, now + el)
          IN  \A i \in DOMAIN pending, j \in DOMAIN pending :
                (i # j /\ ~TimedOut(pending[i], now + el)) =>
                  \E chk \in cycle :
                    /\ chk[i].raised
                    /\ chk[j].decision
                         = Decide(pending[j], MergedSeen, now + el))
  /\ [][ FirstLoop =>
           /\ DOMAIN decided' = DOMAIN pending
           /\ \A i \in DOMAIN decided' :
                /\ decided'[i].pr_number = pending[i].pr_number
                /\ decided'[i].raised =>
                     /\ decided'[i].decision = "keep"
                     /\ pending'[i] = pending[i]
                     /\ \A k \in DOMAIN completed' :
                          completed'[k].pr_number # decided'[i].pr_number
                     /\ Count(reworkCalls', decided'[i].pr_number)
                          = Count(reworkCalls, decided'[i].pr_number)
                /\ IsCompleted(decided'[i].decision) =>
                     /\ pending'[i].status = decided'[i].decision
                     /\ \E k \in DOMAIN completed' :
                          completed'[k] = pending'[i] ]_vars
  /\ [][ SecondLoop =>
           /\ \A i \in DOMAIN decided :
                decided[i].raised =>
                  /\ \E m \in DOMAIN pending' : pending'[m] = pending[i]
                  /\ Count(mergedCalls', decided[i].pr_number)
                       = Count(mergedCalls, decided[i].pr_number)
           /\ \A k \in DOMAIN completed :
                /\ completed[k].pr_number \notin PendingPrs'
                /\ (on_pr_merged /\ completed[k].status = "merged") =>
                     Count(mergedCalls', completed[k].pr_number)
                       = Count(mergedCalls, completed[k].pr_number) + 1 ]_vars
  /\ [](pollPc = "remove" => ENABLED PollRemove)

\* the first loop of a cycle has kept the registration whose client raised
\* and has then found the next registration merged
C22_Witness ==
  /\ pollPc = "remove"
  /\ on_pr_merged
  /\ Len(decided) = 2
  /\ decided[1].raised
  /\ pending[1].status = "pending"
  /\ decided[2].decision = "merged"
  /\ completed = << pending[2] >>
  /\ pending[2].status = "merged"

OnQueue(log, queue_name) ==
  SelectSeq(log, LAMBDA c : c.queue_name = queue_name)

\* the same envelope, whatever validation filled in
SameEnvelope(e, f) == [ e EXCEPT !.form = None ] = [ f EXCEPT !.form = None ]

\* C23: an item that fails envelope validation is not dropped by the queue
\* store: push_event appends it unchanged at the tail of the named queue and
\* reports success, and a pop_event that removes it returns it as stored; no
\* queue ever holds an item that json.loads cannot decode, so every pop_event
\* that removed an item returned that item to its caller
C23_PushedStep == pushLog' # pushLog

C23_PoppedStep == \E queue_name \in QNames :
  queue[queue_name] # << >> /\ queue' = pop_event(queue, queue_name)

C23_InvalidNotDropped ==
  /\ [](\A queue_name \in QNames : \A k \in DOMAIN queue[queue_name] :
         IsJson(queue[queue_name][k]))
  /\ [][ C23_PushedStep =>
          LET c == pushLog'[Len(pushLog')]
          IN  ~IsValid(c.event) =>
                /\ queue' = [ queue EXCEPT ![c.queue_name] =
                                            Append(@, c.event) ]
                /\ qret' = [ op |-> "push", ok |-> TRUE ] ]_vars
  /\ [][ C23_PoppedStep =>
          /\ qret' = [ op |-> "pop", ok |-> TRUE ]
          /\ Len(popLog') = Len(popLog) + 1
          /\ LET c == popLog'[Len(popLog')]
                 item == Head(queue[c.queue_name])
             IN  /\ queue' = pop_event(queue, c.queue_name)
                 /\ SameEnvelope(c.event, item)
                 /\ ~IsValid(item) => c.event = item ]_vars

\* an item that fails validation was pushed behind another one, the one
\* ahead of it was popped, and then it was popped back as it was pushed
C23_Witness ==
  /\ Len(pushLog) = 2 /\ Len(popLog) = 2
  /\ qret = [ op |-> "pop", ok |-> TRUE ]
  /\ pushLog[2].event.form = "invalid"
  /\ pushLog[2].queue_name = "PLAN"
  /\ popLog[2] = pushLog[2]
  /\ pushLog[1].queue_name = "PLAN"
  /\ queue["PLAN"] = << >>

\* C6: on every queue name the k-th pop_event that returns an event returns
\* the envelope of the k-th push_event on that name, and no pushed envelope
\* is returned by two pops.
C6_Fifo ==
  /\ \A queue_name \in QNames :
       LET pushes == OnQueue(pushLog, queue_name)
           pops == OnQueue(popLog, queue_name)
       IN  /\ Len(pops) <= Len(pushes)
           /\ \A k \in DOMAIN pops :
                SameEnvelope(pops[k].event, pushes[k].event)
  /\ \A i, j \in DOMAIN popLog :
       i # j => popLog[i].event.id # popLog[j].event.id

\* two envelopes pushed to one queue came back in push order, one accepted
\* by validation and one not, and a third was pushed after the pops
C6_Witness ==
  /\ Len(pushLog) = 3
  /\ Len(popLog) = 2
  /\ qret = [ op |-> "push", ok |-> TRUE ]
  /\ \A k \in 1..3 : pushLog[k].queue_name = "PLAN"
  /\ pushLog[1].event.form = "raw"
  /\ pushLog[2].event.form = "invalid"
  /\ popLog[1].queue_name = "PLAN" /\ popLog[1].event.id = 1
  /\ popLog[2].queue_name = "PLAN" /\ popLog[2].event.id = 2
  /\ Len(queue["PLAN"]) = 1

\* C31: for one CHANGES_REQUESTED review on a registered pull request the
\* rework callback is invoked at most once over all poll cycles, and a
\* cycle that runs after the feedback was handed over goes on to the
\* merge/close check for that registration instead of handing it over again.
C31_ReworkOncePerReview ==
  /\ [](\A pr \in reviews : Count(reworkCalls, pr) <= 1)
  /\ [][ FirstLoop =>
           \A i \in DOMAIN decided' :
             Count(reworkCalls, decided'[i].pr_number) >= 1 =>
               decided'[i].decision # "rework" ]_vars

\* C36: the second loop of a poll cycle removes no registration that the
\* cycle did not itself find merged, closed or timed out: a registration
\* made while the cycle ran is still pending after it.
C36_NewRegistrationKept ==
  [][ SecondLoop =>
        \A i \in DOMAIN pending :
          pending[i].status = "pending" =>
            \E j \in DOMAIN pending' : pending'[j] = pending[i] ]_vars

\* C32: when UX_APPROVED and ARCH_APPROVED were each submitted once for a
\* WorkItem in DESIGN by two handle_event calls and both calls have returned
\* success, the WorkItem is in CODING with empty approval flags, however the
\* load, update and save steps of the two calls interleaved.
C32_BothApprovalsReachCoding ==
  ( /\ Len(requests) = 2
    /\ \A i \in DOMAIN requests :
         requests[i].pc = "returned" /\ requests[i].ret.ok )
  => LET work_item == load_work_item(workItems, Walked)
     IN  /\ work_item.current_state = "CODING"
         /\ work_item.approval_flags = {}

\* the envelopes of event event_id that a queue holds
Copies(q, event_id) == Cardinality({ k \in DOMAIN q : q[k].id = event_id })

\* C33: of two clarification resumptions of one event id that run at the
\* same time at most one re-enqueues the envelope: queue:REQUIREMENT never
\* holds two copies of it, and the two calls do not both return success.
C33_OneResumptionWins ==
  /\ \A event_id \in KnownIds : Copies(queue["REQUIREMENT"], event_id) <= 1
  /\ \A i, j \in DOMAIN requests :
       i # j /\ requests[i].id = requests[j].id =>
         ~(requests[i].code = 200 /\ requests[j].code = 200)

\* C34: every persisted WorkItem has approval flags only while its state
\* declares requires_approvals, every flag is one of that state's approval
\* events, and a WorkItem that leaves such a state, by the completed
\* approvals, by a rejection or by any other transition, has no flags.
C34_FlagsOnlyInApprovalStates ==
  /\ [](\A id \in DOMAIN workItems :
          LET work_item == load_work_item(workItems, id)
          IN  work_item.approval_flags
                \subseteq Range(requires_approvals(work_item.current_state)))
  /\ [][ \A id \in DOMAIN workItems :
            LET before == load_work_item(workItems, id)
                after == load_work_item(workItems', id)
            IN  ( /\ requires_approvals(before.current_state) # << >>
                  /\ after.current_state # before.current_state ) =>
                  after.approval_flags = {} ]_vars

\* a WorkItem with one approval recorded left DESIGN through UX_ARCH_DONE,
\* sent as an event of its own, and is in CODING without flags
C34_Witness ==
  /\ call = [ id |-> Walked, name |-> "UX_ARCH_DONE" ]
  /\ result.ok
  /\ LET work_item == load_work_item(workItems, Walked)
         n == Len(work_item.history)
     IN  /\ work_item.current_state = "CODING"
         /\ work_item.approval_flags = {}
         /\ n >= 2
         /\ work_item.history[n - 1].message
              = << "Approval received", "ARCH_APPROVED" >>

\* the threads of loop l that are inside a tick or a poll cycle
Busy(l) == { i \in DOMAIN loops[l].threads : loops[l].threads[i] = "busy" }

\* C35: over any sequence of start and stop calls at most one thread of the
\* Stepper loop and at most one thread of the Poller loop is inside a tick
\* or a poll cycle at any time, also when a start follows a stop while the
\* old loop thread is in its sleep between two iterations.
C35_OneLoopThread == \A l \in Loops : Cardinality(Busy(l)) <= 1

\* an Orchestrator event call, on any id, happens in this step
AnyEventCall == nEvents' = nEvents + 1

\* C37: a handle_event or submit_approval call that fails (unknown WorkItem,
\* invalid transition, unknown approval type) or that only records an
\* approval that is not the last one pushes no job: its Redis writes hold
\* no RPUSH and every queue is as it was before the call.
C37_NoJobWithoutTransition ==
  [][ ( /\ AnyEventCall
        /\ \/ ~result'.ok
           \/ Head(result'.msg) = "Approval recorded" ) =>
          /\ queue' = queue
          /\ \A k \in DOMAIN writes' : writes'[k].op # "RPUSH" ]_vars

\* the ARCH approval of a WorkItem in DESIGN was recorded as the first one:
\* the call wrote the WorkItem and nothing else, the jobs of the design
\* agents are the newest ones and no CODE job is queued
C37_Witness ==
  /\ call = [ id |-> 1, name |-> "ARCH_APPROVED" ]
  /\ result = [ ok |-> TRUE, msg |-> << "Approval recorded", "ARCH_APPROVED" >> ]
  /\ Len(writes) = 1 /\ writes[1].op = "SET"
  /\ workItems[1].approval_flags = { "ARCH_APPROVED" }
  /\ Len(queue["UXUI"]) = 1 /\ Len(queue["ARCHITECT"]) = 1
  /\ queue["CODE"] = << >>

\* C38: DONE is terminal: every handle_event and submit_approval call on a
\* WorkItem whose saved state is DONE fails and leaves the saved WorkItem
\* (state, flags, history) as it was; and a WorkItem comes to DONE only by
\* MONITORING_COMPLETE in MONITORING: no other transition of the workflow
\* leads to DONE and DONE is not the initial state.
C38_DoneIsTerminal ==
  /\ [][ ( /\ EventCall
           /\ workItems[call'.id].current_state = "DONE" ) =>
          /\ ~result'.ok
          /\ workItems' = workItems
          /\ queue' = queue ]_vars
  /\ [][ \A id \in DOMAIN workItems' :
            ( /\ workItems'[id].current_state = "DONE"
              /\ id \in DOMAIN workItems =>
                   workItems[id].current_state # "DONE" ) =>
              /\ id \in DOMAIN workItems
              /\ workItems[id].current_state = "MONITORING"
              /\ call' = [ id |-> id, name |-> "MONITORING_COMPLETE" ] ]_vars
  /\ \A s \in States : \A name \in DOMAIN transitions(s) :
       transitions(s)[name] = "DONE" =>
         s = "MONITORING" /\ name = "MONITORING_COMPLETE"
  /\ \A workflow_name \in WORKFLOW_REGISTRY :
       initial_state(workflow_name) # "DONE"

\* a WorkItem came to DONE with its eighth event and the next call, a
\* RELEASE approval through submit_approval, failed and changed nothing
C38_Witness ==
  /\ nEvents = 9
  /\ call = [ id |-> Walked, name |-> "RELEASED" ]
  /\ result = [ ok |-> FALSE,
                msg |-> << "Invalid transition", "DONE", "RELEASED" >> ]
  /\ writes = << >>
  /\ workItems[Walked].current_state = "DONE"
  /\ Len(workItems[Walked].history) = 9

\* C39: a WorkflowEvent written with to_json and read back with from_json
\* has the same name, work_item_id, payload and source; a WorkItem saved and
\* loaded again has the same id, current_state, approval_flags and history.
C39_RoundTrip ==
  /\ trip.kind = "event" =>
       /\ trip.after.name = trip.before.name
       /\ trip.after.work_item_id = trip.before.work_item_id
       /\ trip.after.payload = trip.before.payload
       /\ trip.after.source = trip.before.source
  /\ trip.kind = "work_item" =>
       /\ trip.after.id = trip.before.id
       /\ trip.after.current_state = trip.before.current_state
       /\ trip.after.approval_flags = trip.before.approval_flags
       /\ trip.after.history = trip.before.history

\* an event of a human with a nested payload went through its JSON text,
\* where its instant is a string, and came back with the instant parsed
C39_Witness ==
  /\ trip.kind = "event"
  /\ trip.before.source = Word("human")
  /\ "report" \in DOMAIN trip.before.payload.items
  /\ trip.text.members["created_at"].j = "string"
  /\ trip.text.members["payload"].members["report"].j = "object"
  /\ trip.after.created_at = trip.before.created_at
  /\ trip.before.created_at = PyDatetime(MaxTime)

====
